---- MODULE Spec2Model ----
(***************************************************************************)
(* Media extraction pipeline of the Web-Scraper repository: the POST       *)
(* handler of src/app/api/scrape/route.ts (acquisition orchestrator), the  *)
(* two extractors it calls (scrapeWithSelenium, scrapeWithFetch), the size *)
(* probe (getImageSize) and the event logger (lib/notion.ts).              *)
(*                                                                         *)
(* Strings that the code builds by concatenation are sequences of their    *)
(* parts; an optional field of a TypeScript object is a record field that  *)
(* is present or not.                                                      *)
(***************************************************************************)
EXTENDS Integers, Sequences, FiniteSets, TLC

\* The requests of a behaviour: "r1" is the request under study, "r2" a second
\* request used by the specifications that compare two runs.
Reqs == {"r1", "r2"}

\* ------------------------------------------------------------------------
\* Helpers on records and messages
\* ------------------------------------------------------------------------

Has(rec, f) == f \in DOMAIN rec

Range(s) == {s[i] : i \in DOMAIN s}

\* msg contains part as a contiguous run of pieces (substring on messages).
Contains(msg, part) ==
    \E i \in 0..(Len(msg) - Len(part)) : SubSeq(msg, i + 1, i + Len(part)) = part

\* JavaScript truthiness of an optional status number (undefined and 0 are falsy).
Truthy(rec, f) == Has(rec, f) /\ rec[f] # 0

\* ------------------------------------------------------------------------
\* URLs.  A raw string is [scheme, rest]: scheme is the "http://" or
\* "https://" prefix the string starts with ("" when it starts with neither).
\* A parsed absolute URL is [scheme, host, path].
\* ------------------------------------------------------------------------

\* What the WHATWG URL parser makes of the text after the scheme: the host is
\* lower-cased and an empty path becomes "/".  Texts outside the table do not
\* parse (a space in the host).
ParseTable ==
    [r \in {"example.com/", "EXAMPLE.com", "example.com/gallery"} |->
        [host |-> "example.com", path |-> IF r = "example.com/gallery" THEN "/gallery" ELSE "/"]]

\* Faulty variant of URLParses: any text after a scheme is taken for a URL.
URLParsesAny(s) == s.scheme # ""

\* new URL(s) does not throw.
URLParses(s) == s.scheme # "" /\ s.rest \in DOMAIN ParseTable

\* new URL(s), and its toString(), as [scheme, host, path].  The handler uses
\* it only after URLParses(s); for any other text the rest is kept as the host.
URLParse(s) ==
    IF s.rest \in DOMAIN ParseTable
    THEN [scheme |-> s.scheme, host |-> ParseTable[s.rest].host, path |-> ParseTable[s.rest].path]
    ELSE [scheme |-> s.scheme, host |-> s.rest, path |-> "/"]

\* URL.origin
Origin(u) == [scheme |-> u.scheme, host |-> u.host]

\* The values a request body's url field can hold.
UrlFieldValues ==
    {[type |-> "number"]}
    \cup {[type |-> "string", scheme |-> "", rest |-> ""]}
    \cup {[type |-> "string", scheme |-> sc, rest |-> re] :
            sc \in {"", "https://"}, re \in {"EXAMPLE.com", "exa mple"}}
    \cup {[type |-> "string", scheme |-> "http://", rest |-> "example.com/gallery"]}

\* What request.json() can produce: a rejection (text that is not JSON), the
\* JSON value null, an object without a url field, an object with one.
RequestBodies ==
    {[json |-> FALSE], [json |-> TRUE, isNull |-> TRUE], [json |-> TRUE, isNull |-> FALSE]}
    \cup {[json |-> TRUE, isNull |-> FALSE, url |-> u] : u \in UrlFieldValues}

\* A candidate string found in markup or in a render-service array:
\* an absolute URL, a path relative to the page's origin, or text that no
\* base makes a URL.
CdnOrigin == [scheme |-> "https://", host |-> "cdn.example"]
SiteOrigin == [scheme |-> "https://", host |-> "example.com"]
CandAbs(o, p) == [kind |-> "abs", origin |-> o, path |-> p]
CandRel(p) == [kind |-> "rel", path |-> p]
CandBad == [kind |-> "bad"]

\* The one-argument form new URL(c) has no base.
NoBase == [none |-> TRUE]

\* new URL(c, base) does not throw.
Resolves(c, base) == c.kind = "abs" \/ (c.kind = "rel" /\ base # NoBase)

\* new URL(c, base).toString()
Resolve(c, base) ==
    IF c.kind = "abs"
    THEN [scheme |-> c.origin.scheme, host |-> c.origin.host, path |-> c.path]
    ELSE [scheme |-> base.scheme, host |-> base.host, path |-> c.path]

\* ------------------------------------------------------------------------
\* Metadata probe: getImageSize
\* ------------------------------------------------------------------------

\* What the HEAD request of a probe can end in.  contentLength is the header
\* text: "1024" parses, "abc" gives NaN; the field is absent when the header is.
HeadReplies ==
    {[kind |-> "timeout"], [kind |-> "neterror"],
     [kind |-> "response", status |-> 404],
     [kind |-> "response", status |-> 200],
     [kind |-> "response", status |-> 200, contentLength |-> "abc"],
     [kind |-> "response", status |-> 200, contentLength |-> "1024"]}

\* response.ok
Ok(status) == status >= 200 /\ status <= 299

\* parseInt(text, 10): a number, or "NaN".
ParseIntTable == [t \in {"1024", "abc"} |-> IF t = "1024" THEN [nan |-> FALSE, n |-> 1024] ELSE [nan |-> TRUE]]

\* Faulty variant of getImageSize: the isNaN test is left out, so a header
\* that is no number gives the size NaN.
getImageSizeNoNaNTest(head) ==
    IF head.kind # "response" THEN [absent |-> TRUE]
    ELSE IF ~Ok(head.status) THEN [absent |-> TRUE]
    ELSE IF ~Has(head, "contentLength") THEN [absent |-> TRUE]
    ELSE IF ParseIntTable[head.contentLength].nan THEN [size |-> "NaN"]
    ELSE [size |-> ParseIntTable[head.contentLength].n]

\* getImageSize: [size |-> n] when the probe yields a byte count, [absent |-> TRUE]
\* (undefined) in every other case; it never throws.
Absent == [absent |-> TRUE]
getImageSize(head) ==
    IF head.kind # "response" THEN Absent
    ELSE IF ~Ok(head.status) THEN Absent
    ELSE IF ~Has(head, "contentLength") THEN Absent
    ELSE IF ParseIntTable[head.contentLength].nan THEN Absent
    ELSE [size |-> ParseIntTable[head.contentLength].n]

\* {...item, fileSize}: the item with the probe's result (fileSize stays
\* absent when the probe gave undefined).
WithSize(item, sz) ==
    IF Has(sz, "size") THEN [f \in DOMAIN item \cup {"fileSize"} |->
                                IF f = "fileSize" THEN sz.size ELSE item[f]]
    ELSE item

\* ------------------------------------------------------------------------
\* Promise.all over the item promises.  The promises settle in the order
\* given by order, a permutation of their positions; each value is stored at
\* the position of its promise.
\* ------------------------------------------------------------------------

\* The orders in which n concurrent probes can complete.
Orders(n) == {o \in [1..n -> 1..n] : \A i \in 1..n : \A j \in 1..n : o[i] = o[j] => i = j}

\* Faulty variant of PromiseAll: the values are collected as they arrive.
PromiseAllAsCompleted(values, order) == [k \in DOMAIN order |-> values[order[k]]]

RECURSIVE Settle(_, _, _)
Settle(values, order, results) ==
    IF order = <<>> THEN results
    ELSE Settle(values, Tail(order), [results EXCEPT ![Head(order)] = values[Head(order)]])

PromiseAll(values, order) == Settle(values, order, [i \in DOMAIN values |-> [pending |-> TRUE]])

\* ------------------------------------------------------------------------
\* getUrlDetails.  A path is a sequence of one-character strings.
\* ------------------------------------------------------------------------

\* String.prototype.lastIndexOf on a character sequence, 1-based; 0 when absent.
LastIndexOf(chars, c) ==
    IF \E i \in DOMAIN chars : chars[i] = c
    THEN CHOOSE i \in DOMAIN chars : chars[i] = c /\ \A j \in DOMAIN chars : chars[j] = c => j <= i
    ELSE 0

\* toLowerCase on the characters the model's paths use.
LowerChar(c) == CASE c = "J" -> "j" [] c = "P" -> "p" [] c = "G" -> "g" [] OTHER -> c
ToLowerCase(chars) == [i \in DOMAIN chars |-> LowerChar(chars[i])]

\* getUrlDetails of a parsed absolute URL: {extension?, filename?}.  The
\* pathname holds no '?' or '#', so the two split calls leave filename as it is;
\* an empty filename is given as undefined.
getUrlDetails(url) ==
    LET pathname == url.path
        filename == SubSeq(pathname, LastIndexOf(pathname, "/") + 1, Len(pathname))
        dot == LastIndexOf(filename, ".")
        ext == IF dot > 0 THEN [extension |-> ToLowerCase(SubSeq(filename, dot + 1, Len(filename)))]
               ELSE <<>>
        fn == IF filename # <<>> THEN [filename |-> filename] ELSE <<>>
    IN  [f \in DOMAIN ext \cup DOMAIN fn |-> IF f = "extension" THEN ext.extension ELSE fn.filename]

\* Record r extended with the fields of record d (object spread).
Merge(r, d) == [f \in DOMAIN r \cup DOMAIN d |-> IF f \in DOMAIN d THEN d[f] ELSE r[f]]

\* ------------------------------------------------------------------------
\* Method 1: scrapeWithSelenium
\* ------------------------------------------------------------------------

\* An element of a JSON array of the render service: a candidate string, the
\* empty string, or a value that is no string.
IsNonEmptyString(c) == c.kind \in {"abs", "rel", "bad"}

\* One loop over result.images or result.videos (lines 127-152, 156-170):
\* every non-empty string that parses and is not yet in uniqueSrcs adds its
\* absolute form to the set and one item to the list.
RECURSIVE SeleniumLoop(_, _, _, _)
SeleniumLoop(srcs, type, uniqueSrcs, items) ==
    IF srcs = <<>> THEN [uniqueSrcs |-> uniqueSrcs, items |-> items]
    ELSE LET src == Head(srcs)
         IN  IF IsNonEmptyString(src) /\ Resolves(src, NoBase)
                /\ Resolve(src, NoBase) \notin uniqueSrcs
             THEN LET absoluteSrc == Resolve(src, NoBase)
                  IN  SeleniumLoop(Tail(srcs), type, uniqueSrcs \cup {absoluteSrc},
                          Append(items, Merge([type |-> type, src |-> absoluteSrc],
                                              getUrlDetails(absoluteSrc))))
             ELSE SeleniumLoop(Tail(srcs), type, uniqueSrcs, items)

\* Array.isArray(result.f): a JSON value is [array |-> TRUE, elems |-> <<...>>]
\* or [array |-> FALSE].
IsArray(result, f) == Has(result, f) /\ result[f].array

\* The image items whose size scrapeWithSelenium probes, and its video items.
SeleniumImages(result) == SeleniumLoop(result.images.elems, "image", {}, <<>>)
SeleniumVideos(result) ==
    SeleniumLoop(result.videos.elems, "video", SeleniumImages(result).uniqueSrcs, <<>>)

\* The URLs scrapeWithSelenium sends a HEAD probe to for this reply.
SeleniumProbes(configured, reply) ==
    IF configured /\ reply.kind = "response" /\ Ok(reply.status) /\ reply.body.json
       /\ ~reply.body.isNull /\ IsArray(reply.body, "images") /\ IsArray(reply.body, "videos")
    THEN [i \in DOMAIN SeleniumImages(reply.body).items |-> SeleniumImages(reply.body).items[i].src]
    ELSE <<>>

\* Faulty variant of SeleniumCaught: no catch, the exception leaves
\* scrapeWithSelenium.
SeleniumRethrown(name, message) == [thrown |-> message]

\* Lines 181-190: the catch of scrapeWithSelenium, for the exception of a
\* timeout, of a failed request or of response.json().
SeleniumCaught(name, message) ==
    IF name = "TimeoutError"
    THEN [data |-> <<>>, error |-> <<"Selenium Service request timed out.">>]
    ELSE [data |-> <<>>, error |-> <<"Selenium Service error: ", message>>]

\* Faulty variant of InvalidStructureResult: a body of the wrong shape is taken
\* for a response without media.
InvalidStructureAsNoMedia == [data |-> <<>>]

\* Lines 118-121: the result when the body is not {images: [], videos: []}.
InvalidStructureResult ==
    [data |-> <<>>, error |-> <<"Invalid response structure from Selenium service.">>,
     status |-> 500]

\* Faulty variant of NotConfiguredResult: the configuration is not checked and
\* the failure of the request to an undefined URL is caught without a status.
NotConfiguredAsCaught == [data |-> <<>>, error |-> <<"Selenium Service error: ", "Failed to parse URL">>]

\* Lines 92-94: the result when SELENIUM_SERVICE_URL is not set.
NotConfiguredResult ==
    [data |-> <<>>, error |-> <<"Selenium service URL not configured.">>, status |-> 501]

\* scrapeWithSelenium: the result {data, error?, status?} for the configuration
\* (seleniumServiceUrl set or not), the service's reply, the replies heads[src]
\* of the HEAD probes and the order in which the probes complete.
scrapeWithSelenium(configured, reply, heads, order) ==
    IF ~configured
    THEN NotConfiguredResult
    ELSE IF reply.kind = "timeout"
    THEN SeleniumCaught("TimeoutError", "The operation was aborted due to timeout")
    ELSE IF reply.kind = "neterror"
    THEN SeleniumCaught("TypeError", "fetch failed")
    ELSE IF ~Ok(reply.status)
    THEN [data |-> <<>>,
          error |-> <<"Selenium service request failed: ", "(Status: ", ToString(reply.status), ")",
                      " - Body: ", reply.text>>,
          status |-> reply.status]
    ELSE IF ~reply.body.json
    THEN SeleniumCaught("SyntaxError", "Unexpected token in JSON")
    ELSE IF reply.body.isNull \/ ~IsArray(reply.body, "images") \/ ~IsArray(reply.body, "videos")
    THEN InvalidStructureResult
    ELSE LET images == SeleniumImages(reply.body).items
             resolvedImageItems ==
                 PromiseAll([i \in DOMAIN images |->
                                WithSize(images[i], getImageSize(heads[images[i].src]))], order)
         IN  [data |-> resolvedImageItems \o SeleniumVideos(reply.body).items]

\* ------------------------------------------------------------------------
\* Method 2: scrapeWithFetch
\* ------------------------------------------------------------------------

\* An attribute value: a candidate or text record, [kind |-> "empty"] for "",
\* Undefined when the element lacks the attribute.
Undefined == [kind |-> "undefined"]
Attr(el, name) == IF Has(el, name) THEN el[name] ELSE Undefined
Falsy(v) == v.kind \in {"undefined", "empty"}
\* a || b
OrElse(a, b) == IF Falsy(a) THEN b ELSE a

\* Faulty variant of addPotentialItem: for a src already seen the item of the
\* later candidate replaces the one kept (last writer wins).
addPotentialItemLastWins(st, type, srcAttr, altAttr, posterAttr, baseUrl) ==
    IF Falsy(srcAttr) \/ ~Resolves(srcAttr, baseUrl) THEN st
    ELSE LET absoluteSrc == Resolve(srcAttr, baseUrl)
             alt == IF Falsy(altAttr) THEN <<>> ELSE [alt |-> altAttr.text]
             poster == IF ~Falsy(posterAttr) /\ Resolves(posterAttr, baseUrl)
                       THEN [poster |-> Resolve(posterAttr, baseUrl)] ELSE <<>>
             item == Merge(Merge(Merge([type |-> type, src |-> absoluteSrc], alt),
                                 getUrlDetails(absoluteSrc)), poster)
         IN  IF absoluteSrc \in st.uniqueSrcs
             THEN [uniqueSrcs |-> st.uniqueSrcs,
                   potentialItems |-> [i \in DOMAIN st.potentialItems |->
                       IF st.potentialItems[i].src = absoluteSrc THEN item
                       ELSE st.potentialItems[i]]]
             ELSE [uniqueSrcs |-> st.uniqueSrcs \cup {absoluteSrc},
                   potentialItems |-> Append(st.potentialItems, item)]

\* Faulty variant of addPotentialItem: a src that does not resolve is kept as
\* an item that carries the raw text and an error.
addPotentialItemKeepsInvalid(st, type, srcAttr, altAttr, posterAttr, baseUrl) ==
    IF Falsy(srcAttr) THEN st
    ELSE IF ~Resolves(srcAttr, baseUrl)
    THEN [uniqueSrcs |-> st.uniqueSrcs,
          potentialItems |-> Append(st.potentialItems,
              [type |-> type, src |-> srcAttr, error |-> "Invalid URL"])]
    ELSE LET absoluteSrc == Resolve(srcAttr, baseUrl)
             alt == IF Falsy(altAttr) THEN <<>> ELSE [alt |-> altAttr.text]
             poster == IF ~Falsy(posterAttr) /\ Resolves(posterAttr, baseUrl)
                       THEN [poster |-> Resolve(posterAttr, baseUrl)] ELSE <<>>
         IN  IF absoluteSrc \in st.uniqueSrcs THEN st
             ELSE [uniqueSrcs |-> st.uniqueSrcs \cup {absoluteSrc},
                   potentialItems |-> Append(st.potentialItems,
                       Merge(Merge(Merge([type |-> type, src |-> absoluteSrc], alt),
                                   getUrlDetails(absoluteSrc)), poster))]

\* Faulty variant of addPotentialItem: the test uniqueSrcs.has is left out.
addPotentialItemNoDedup(st, type, srcAttr, altAttr, posterAttr, baseUrl) ==
    IF Falsy(srcAttr) \/ ~Resolves(srcAttr, baseUrl) THEN st
    ELSE LET absoluteSrc == Resolve(srcAttr, baseUrl)
             alt == IF Falsy(altAttr) THEN <<>> ELSE [alt |-> altAttr.text]
             poster == IF ~Falsy(posterAttr) /\ Resolves(posterAttr, baseUrl)
                       THEN [poster |-> Resolve(posterAttr, baseUrl)] ELSE <<>>
         IN  [uniqueSrcs |-> st.uniqueSrcs \cup {absoluteSrc},
              potentialItems |-> Append(st.potentialItems,
                  Merge(Merge(Merge([type |-> type, src |-> absoluteSrc], alt),
                              getUrlDetails(absoluteSrc)), poster))]

\* addPotentialItem (lines 225-259) on the scan state st = [uniqueSrcs,
\* potentialItems]: nothing for a missing src, a src that does not resolve or
\* one already seen; otherwise one item, with alt and poster when they are
\* given (an unresolvable poster leaves poster undefined).
addPotentialItem(st, type, srcAttr, altAttr, posterAttr, baseUrl) ==
    IF Falsy(srcAttr) \/ ~Resolves(srcAttr, baseUrl) THEN st
    ELSE LET absoluteSrc == Resolve(srcAttr, baseUrl)
             alt == IF Falsy(altAttr) THEN <<>> ELSE [alt |-> altAttr.text]
             poster == IF ~Falsy(posterAttr) /\ Resolves(posterAttr, baseUrl)
                       THEN [poster |-> Resolve(posterAttr, baseUrl)] ELSE <<>>
         IN  IF absoluteSrc \in st.uniqueSrcs THEN st
             ELSE [uniqueSrcs |-> st.uniqueSrcs \cup {absoluteSrc},
                   potentialItems |-> Append(st.potentialItems,
                       Merge(Merge(Merge([type |-> type, src |-> absoluteSrc], alt),
                                   getUrlDetails(absoluteSrc)), poster))]

\* The page is the sequence of the body's child elements in document order:
\*   [tag |-> "img", src?, dataSrc?, alt?]
\*   [tag |-> "picture", sources |-> <<[srcset?]...>>, imgs |-> <<img...>>]
\*   [tag |-> "video", src?, poster?, sources |-> <<[src?]...>>]
\* $('img'): every img of the document, those inside a picture included.
RECURSIVE SelectImg(_)
SelectImg(page) ==
    IF page = <<>> THEN <<>>
    ELSE LET el == Head(page)
         IN  (CASE el.tag = "img" -> <<el>>
                [] el.tag = "picture" -> el.imgs
                [] OTHER -> <<>>) \o SelectImg(Tail(page))

\* $('picture source'): each source with the picture it is in.
RECURSIVE SelectPictureSource(_)
SelectPictureSource(page) ==
    IF page = <<>> THEN <<>>
    ELSE LET el == Head(page)
         IN  (IF el.tag = "picture"
              THEN [i \in DOMAIN el.sources |-> [source |-> el.sources[i], picture |-> el]]
              ELSE <<>>) \o SelectPictureSource(Tail(page))

\* $('video')
SelectVideo(page) == SelectSeq(page, LAMBDA el : el.tag = "video")

\* .attr('alt') of a selection: the attribute of its first element.
FirstAlt(els) == IF els = <<>> THEN Undefined ELSE Attr(els[1], "alt")

\* $el.closest('picture').siblings('img').attr('alt') || ...find('img').attr('alt')
ParentImgAlt(page, picture) ==
    OrElse(FirstAlt(SelectSeq(page, LAMBDA el : el.tag = "img")), FirstAlt(picture.imgs))

\* Lines 262-267: the img loop.
RECURSIVE ScanImgs(_, _, _)
ScanImgs(els, st, baseUrl) ==
    IF els = <<>> THEN st
    ELSE ScanImgs(Tail(els),
             addPotentialItem(st, "image", OrElse(Attr(Head(els), "src"), Attr(Head(els), "dataSrc")),
                              Attr(Head(els), "alt"), Undefined, baseUrl),
             baseUrl)

\* Lines 270-280: the picture source loop; a srcset is [kind |-> "list",
\* entries |-> <<candidate, ...>>] and its first entry is the one taken.
RECURSIVE ScanPictureSources(_, _, _, _)
ScanPictureSources(els, st, baseUrl, page) ==
    IF els = <<>> THEN st
    ELSE LET srcset == Attr(Head(els).source, "srcset")
         IN  ScanPictureSources(Tail(els),
                 IF Falsy(srcset) THEN st
                 ELSE addPotentialItem(st, "image", srcset.entries[1],
                                       ParentImgAlt(page, Head(els).picture), Undefined, baseUrl),
                 baseUrl, page)

\* Lines 293-295: the source children of one video.
RECURSIVE ScanVideoSources(_, _, _, _)
ScanVideoSources(sources, st, poster, baseUrl) ==
    IF sources = <<>> THEN st
    ELSE ScanVideoSources(Tail(sources),
             addPotentialItem(st, "video", Attr(Head(sources), "src"), Undefined, poster, baseUrl),
             poster, baseUrl)

\* Faulty variant of ScanVideos: the nested <source> children are scanned
\* whether or not the element has a src of its own.
RECURSIVE ScanVideosAlsoNested(_, _, _)
ScanVideosAlsoNested(els, st, baseUrl) ==
    IF els = <<>> THEN st
    ELSE LET el == Head(els)
             poster == Attr(el, "poster")
             videoSrc == Attr(el, "src")
         IN  ScanVideosAlsoNested(Tail(els),
                 ScanVideoSources(el.sources,
                     IF ~Falsy(videoSrc)
                     THEN addPotentialItem(st, "video", videoSrc, Undefined, poster, baseUrl)
                     ELSE st,
                     poster, baseUrl),
                 baseUrl)

\* Lines 283-297: the video loop.
RECURSIVE ScanVideos(_, _, _)
ScanVideos(els, st, baseUrl) ==
    IF els = <<>> THEN st
    ELSE LET el == Head(els)
             poster == Attr(el, "poster")
             videoSrc == Attr(el, "src")
         IN  ScanVideos(Tail(els),
                 IF ~Falsy(videoSrc)
                 THEN addPotentialItem(st, "video", videoSrc, Undefined, poster, baseUrl)
                 ELSE ScanVideoSources(el.sources, st, poster, baseUrl),
                 baseUrl)

\* potentialItems after the synchronous scan of the page (lines 217-297).
PotentialItems(page, baseUrl) ==
    LET st0 == [uniqueSrcs |-> {}, potentialItems |-> <<>>]
        st1 == ScanImgs(SelectImg(page), st0, baseUrl)
        st2 == ScanPictureSources(SelectPictureSource(page), st1, baseUrl, page)
        st3 == ScanVideos(SelectVideo(page), st2, baseUrl)
    IN  st3.potentialItems

\* contentType.includes('text/html')
IsHtml(reply) == Has(reply, "contentType") /\ reply.contentType \in {"text/html", "text/html; charset=utf-8"}

\* The URLs scrapeWithFetch sends a HEAD probe to for this reply: one per
\* potential item, whatever its type (the type test of lines 301-308 is
\* commented out).
FetchProbes(reply, validatedUrl) ==
    IF reply.kind = "response" /\ Ok(reply.status) /\ IsHtml(reply)
    THEN LET items == PotentialItems(reply.html, Origin(validatedUrl))
         IN  [i \in DOMAIN items |-> items[i].src]
    ELSE <<>>

\* Lines 317-327: the catch of scrapeWithFetch.
FetchCaught(name, message) ==
    IF name = "TimeoutError"
    THEN [data |-> <<>>, error |-> <<"Fetch timed out (Fallback).">>]
    ELSE [data |-> <<>>, error |-> <<"Fetch error (Fallback): ", message>>]

\* Faulty variant of scrapeWithFetch: the content type is tested before the
\* status.
scrapeWithFetchTypeFirst(validatedUrl, reply, heads, order) ==
    IF reply.kind = "timeout"
    THEN FetchCaught("TimeoutError", "The operation was aborted due to timeout")
    ELSE IF reply.kind = "neterror"
    THEN FetchCaught("TypeError", "fetch failed")
    ELSE IF ~IsHtml(reply)
    THEN [data |-> <<>>,
          error |-> <<"Expected HTML, received ",
                      IF Has(reply, "contentType") THEN reply.contentType ELSE "null">>,
          status |-> 415]
    ELSE IF ~Ok(reply.status)
    THEN [data |-> <<>>,
          error |-> <<"Fetch failed: ", "(Status: ", ToString(reply.status), ")">>,
          status |-> reply.status]
    ELSE LET potentialItems == PotentialItems(reply.html, Origin(validatedUrl))
         IN  [data |-> PromiseAll([i \in DOMAIN potentialItems |->
                          WithSize(potentialItems[i], getImageSize(heads[potentialItems[i].src]))],
                                  order)]

\* scrapeWithFetch: the result {data, error?, status?} for the target site's
\* reply, the replies heads[src] of the HEAD probes and the order in which the
\* probes complete.
scrapeWithFetch(validatedUrl, reply, heads, order) ==
    IF reply.kind = "timeout"
    THEN FetchCaught("TimeoutError", "The operation was aborted due to timeout")
    ELSE IF reply.kind = "neterror"
    THEN FetchCaught("TypeError", "fetch failed")
    ELSE IF ~Ok(reply.status)
    THEN [data |-> <<>>,
          error |-> <<"Fetch failed: ", "(Status: ", ToString(reply.status), ")">>,
          status |-> reply.status]
    ELSE IF ~IsHtml(reply)
    THEN [data |-> <<>>,
          error |-> <<"Expected HTML, received ",
                      IF Has(reply, "contentType") THEN reply.contentType ELSE "null">>,
          status |-> 415]
    ELSE LET potentialItems == PotentialItems(reply.html, Origin(validatedUrl))
         IN  [data |-> PromiseAll([i \in DOMAIN potentialItems |->
                          WithSize(potentialItems[i], getImageSize(heads[potentialItems[i].src]))],
                                  order)]

\* ------------------------------------------------------------------------
\* Replies of the external collaborators
\* ------------------------------------------------------------------------

ImgA == CandAbs(CdnOrigin, <<"/", "a", ".", "J", "P", "G">>)
ImgB == CandRel(<<"/", "i", "/", "b">>)
ImgBAbs == CandAbs(SiteOrigin, <<"/", "i", "/", "b">>)
VidV == CandAbs(CdnOrigin, <<"/", "v", ".", "m", "p", "4">>)
VidW == CandAbs(CdnOrigin, <<"/", "w", ".", "w", "e", "b", "m">>)
ImgDot == CandAbs(CdnOrigin, <<"/", "p", ".">>)
ImgDir == CandAbs(CdnOrigin, <<"/", "d", "/">>)
Empty == [kind |-> "empty"]
Arr(elems) == [array |-> TRUE, elems |-> elems]
JsonObject(fields) == Merge([json |-> TRUE, isNull |-> FALSE], fields)

\* What the GET to the render service can end in: a timeout, a network
\* error, a non-2xx response, a 2xx response whose body is no JSON, is null,
\* has a wrong shape, or is {images, videos}.
SeleniumReplies ==
    {[kind |-> "timeout"], [kind |-> "neterror"]}
    \cup {[kind |-> "response", status |-> st, text |-> "upstream body"] : st \in {302, 404, 503}}
    \cup {[kind |-> "response", status |-> 200, body |-> b] :
            b \in {[json |-> FALSE],
                   [json |-> TRUE, isNull |-> TRUE],
                   JsonObject([images |-> Arr(<<ImgA>>)]),
                   JsonObject([images |-> [array |-> FALSE], videos |-> Arr(<<VidV>>)]),
                   JsonObject([images |-> Arr(<<>>), videos |-> Arr(<<>>)]),
                   JsonObject([images |-> Arr(<<ImgA>>), videos |-> Arr(<<>>)]),
                   JsonObject([images |-> Arr(<<ImgA, CandBad, ImgA>>),
                               videos |-> Arr(<<VidV, ImgA, Empty>>)]),
                   JsonObject([images |-> Arr(<<ImgBAbs, ImgB, ImgA>>),
                               videos |-> Arr(<<VidV>>)])}}

\* Pages the target site can serve.
Pages ==
    {<<>>,
     <<[tag |-> "img", src |-> ImgB, alt |-> [kind |-> "text", text |-> "b"]]>>,
     <<[tag |-> "video", poster |-> ImgB, sources |-> <<[src |-> VidV]>>],
       [tag |-> "img", dataSrc |-> ImgBAbs],
       [tag |-> "img", src |-> CandBad]>>,
     <<[tag |-> "img", src |-> ImgB, alt |-> [kind |-> "text", text |-> "b"]],
       [tag |-> "picture",
        sources |-> <<[srcset |-> [kind |-> "list", entries |-> <<ImgBAbs, ImgA>>]]>>,
        imgs |-> <<[tag |-> "img", src |-> ImgB]>>],
       [tag |-> "video", src |-> ImgBAbs, sources |-> <<>>],
       [tag |-> "img", src |-> ImgA]>>,
     <<[tag |-> "video", poster |-> ImgB, sources |-> <<[src |-> VidV], [src |-> VidW]>>]>>,
     <<[tag |-> "img", src |-> CandBad],
       [tag |-> "video", sources |-> <<[src |-> Empty]>>]>>,
     <<[tag |-> "img", src |-> ImgB],
       [tag |-> "img", src |-> ImgBAbs, alt |-> [kind |-> "text", text |-> "b"]],
       [tag |-> "video", src |-> ImgB, poster |-> ImgA, sources |-> <<>>]>>,
     <<[tag |-> "video", src |-> VidV, poster |-> CandBad, sources |-> <<[src |-> VidW]>>]>>,
     <<[tag |-> "img", src |-> ImgDot], [tag |-> "img", src |-> ImgDir]>>}

\* What the GET to the target site can end in.
FetchReplies ==
    {[kind |-> "timeout"], [kind |-> "neterror"]}
    \cup {[kind |-> "response", status |-> st, contentType |-> "text/html"] : st \in {304, 404, 500}}
    \cup {[kind |-> "response", status |-> 404, contentType |-> "application/json"],
          [kind |-> "response", status |-> 500]}
    \cup {[kind |-> "response", status |-> 200],
          [kind |-> "response", status |-> 200, contentType |-> "application/json"]}
    \cup {[kind |-> "response", status |-> 200, contentType |-> "text/html; charset=utf-8",
           html |-> pg] : pg \in Pages}

\* The placeholder for the reply of a call that issues no request.
NoReply == [kind |-> "none"]

\* ------------------------------------------------------------------------
\* Event logger: logScrapeEvent (lib/notion.ts)
\* ------------------------------------------------------------------------

\* How a call of logScrapeEvent ends for the caller: it returns at once when
\* the Notion client is not configured ("skipped"), after the page is created
\* ("logged"), or after pages.create failed and the error was caught and
\* printed ("failed").  It never throws.
logScrapeEvent(notionConfigured) ==
    IF ~notionConfigured THEN {"skipped"} ELSE {"logged", "failed"}

\* ------------------------------------------------------------------------
\* The POST handler (lines 331-455), one instance per request
\* ------------------------------------------------------------------------

VARIABLES
    env,            \* env[r]: the process configuration the request runs under
    pc,             \* pc[r]: "start", "selenium", "fetch", "log" (awaiting), "done"
    body,           \* body[r]: what request.json() gave
    targetUrl,      \* the handler's locals ...
    validatedUrl,
    methodUsed,
    finalData,
    finalError,
    finalStatus,
    seleniumResult,
    fetchResult,
    logArg,         \* the argument of the logScrapeEvent call being awaited
    resume,         \* what follows that await: "return", "fallback", "bothFailed"
    toReturn,       \* the response the return statement after the await gives
    logged,         \* logScrapeEvent calls completed: <<[data, outcome], ...>>
    response,       \* responses returned to the client
    calls,          \* extractor invocations and network requests made, in order
                    \* (and, where the probes are followed one by one, their ends)
    world,          \* the replies the collaborators gave this request
    homePage        \* the state of the HomePage component (src/app/page.tsx)

vars == <<env, pc, body, targetUrl, validatedUrl, methodUsed, finalData, finalError,
          finalStatus, seleniumResult, fetchResult, logArg, resume, toReturn, logged,
          response, calls, world, homePage>>

locals == <<targetUrl, validatedUrl, methodUsed, finalData, finalError, finalStatus,
            seleniumResult, fetchResult>>

NA == [na |-> TRUE]                \* the url 'N/A' of a log record
None == [none |-> TRUE]            \* a local not assigned yet
EmptyString == [scheme |-> "", rest |-> ""]

Envs == [seleniumServiceUrl : BOOLEAN, notion : BOOLEAN]

\* useState(...) of lines 35-45 of page.tsx, with the requests of handleScrape
\* that are in flight, the place of its synchronous part and the last event.
InitHomePage ==
    [url |-> "", allMedia |-> <<>>, isLoading |-> FALSE, scrapeError |-> [null |-> TRUE],
     showFilters |-> FALSE, selectedTypes |-> [image |-> TRUE, video |-> TRUE],
     availableExtensions |-> {}, selectedExtensions |-> {},
     inFlight |-> <<>>, at |-> "idle", last |-> "none"]

InitRequests ==
    /\ homePage = InitHomePage
    /\ pc = [r \in Reqs |-> "start"]
    /\ body = [r \in Reqs |-> None]
    /\ targetUrl = [r \in Reqs |-> EmptyString]
    /\ validatedUrl = [r \in Reqs |-> None]
    /\ methodUsed = [r \in Reqs |-> "None"]
    /\ finalData = [r \in Reqs |-> <<>>]
    /\ finalError = [r \in Reqs |-> <<>>]
    /\ finalStatus = [r \in Reqs |-> 200]
    /\ seleniumResult = [r \in Reqs |-> None]
    /\ fetchResult = [r \in Reqs |-> None]
    /\ logArg = [r \in Reqs |-> None]
    /\ resume = [r \in Reqs |-> "none"]
    /\ toReturn = [r \in Reqs |-> None]
    /\ logged = [r \in Reqs |-> <<>>]
    /\ response = [r \in Reqs |-> <<>>]
    /\ calls = [r \in Reqs |-> <<>>]
    /\ world = [r \in Reqs |-> <<>>]

\* NextResponse.json(body, {status})
JsonResponse(status, b) == [status |-> status, body |-> b]

\* await logScrapeEvent(data), then what `then` names.
AwaitLog(r, data, then, ret) ==
    /\ pc' = [pc EXCEPT ![r] = "log"]
    /\ logArg' = [logArg EXCEPT ![r] = data]
    /\ resume' = [resume EXCEPT ![r] = then]
    /\ toReturn' = [toReturn EXCEPT ![r] = ret]

\* Lines 356-358: prepend https:// when the string starts with neither scheme.
PrependScheme(s) == IF s.scheme = "" THEN [s EXCEPT !.scheme = "https://"] ELSE s

\* !targetUrl || typeof targetUrl !== 'string' (line 350)
UrlMissing(b) == ~Has(b, "url") \/ b.url.type # "string" \/ b.url = [type |-> "string", scheme |-> "", rest |-> ""]

\* The raw string of a url field that is a string.
RawUrl(b) == [scheme |-> b.url.scheme, rest |-> b.url.rest]

\* The HEAD requests of one extractor run, as entries of calls.
HeadCalls(probes) == [i \in DOMAIN probes |-> [fn |-> "HEAD", url |-> probes[i]]]

\* Faulty variant of InvalidJsonResponse: the rejection of request.json() is
\* answered as the outer catch answers (the inner try/catch left out).
InvalidJsonAsUnhandled ==
    JsonResponse(500, [error |-> <<"An unexpected server error occurred.">>,
                       details |-> "Unexpected token in JSON"])

\* The responses of lines 346, 352 and 365.
InvalidJsonResponse == JsonResponse(400, [error |-> <<"Invalid JSON body">>])
UrlRequiredResponse == JsonResponse(400, [error |-> <<"URL is required and must be a string">>])
InvalidUrlResponse == JsonResponse(400, [error |-> <<"Invalid URL format">>])

\* Faulty variant of SuccessResponse: an empty item list is answered as a
\* failure.
SuccessResponseUnlessEmpty(data) ==
    IF data = <<>> THEN [status |-> 404, body |-> [error |-> <<"No media found">>]]
    ELSE [status |-> 200, body |-> [data |-> data]]

\* The response of lines 382 and 416.
SuccessResponse(data) == JsonResponse(200, [data |-> data])

\* Faulty variants of NoError: an empty item list counts as a failure (the
\* behaviour of an earlier version of the handler); a 501 of the unconfigured
\* render service counts as a success.
NoErrorAndItems(result) == ~Has(result, "error") /\ result.data # <<>>
NoErrorOrNotConfigured(result) ==
    ~Has(result, "error") \/ (Truthy(result, "status") /\ result.status = 501)

\* !result.error (lines 377 and 403): the extractor reported no error.
NoError(result) == ~Has(result, "error")

\* result.error || 'Unknown ... failure' (lines 386 and 420).
FailReason(result, unknown) == IF Has(result, "error") THEN result.error ELSE <<unknown>>

\* The message of the TypeError that reading body.url of null throws.
NullBodyMessage == "Cannot read properties of null (reading 'url')"

\* Faulty variant of Unhandled: no outer catch, the exception leaves the
\* handler and no response is produced.
Uncaught(r, message, url) ==
    /\ pc' = [pc EXCEPT ![r] = "uncaught"]
    /\ UNCHANGED <<logArg, resume, toReturn>>

\* Lines 443-454: the outer catch.  url is targetUrl || 'N/A'.
Unhandled(r, message, url) ==
    AwaitLog(r, [url |-> url, status |-> "Failure",
                 errorMessage |-> <<"Unhandled API Error: ", message>>],
             "return",
             JsonResponse(500, [error |-> <<"An unexpected server error occurred.">>,
                                details |-> message]))

\* Lines 341-372: the body is parsed and the URL validated, up to the call of
\* scrapeWithSelenium.
ParseBody(r, b) ==
    /\ pc[r] = "start"
    /\ body' = [body EXCEPT ![r] = b]
    /\ IF ~b.json
       THEN /\ AwaitLog(r, [url |-> NA, status |-> "Failure", errorMessage |-> <<"Invalid JSON body">>],
                        "return", InvalidJsonResponse)
            /\ UNCHANGED <<targetUrl, validatedUrl, calls>>
       ELSE IF b.isNull
       THEN /\ Unhandled(r, NullBodyMessage, NA)
            /\ UNCHANGED <<targetUrl, validatedUrl, calls>>
       ELSE IF UrlMissing(b)
       THEN /\ AwaitLog(r, [url |-> NA, status |-> "Failure",
                            errorMessage |-> <<"URL is required and must be a string">>],
                        "return", UrlRequiredResponse)
            /\ UNCHANGED <<targetUrl, validatedUrl, calls>>
       ELSE IF ~URLParses(PrependScheme(RawUrl(b)))
       THEN /\ targetUrl' = [targetUrl EXCEPT ![r] = PrependScheme(RawUrl(b))]
            /\ AwaitLog(r, [url |-> PrependScheme(RawUrl(b)), status |-> "Failure",
                            errorMessage |-> <<"Invalid URL format">>],
                        "return", InvalidUrlResponse)
            /\ UNCHANGED <<validatedUrl, calls>>
       ELSE /\ validatedUrl' = [validatedUrl EXCEPT ![r] = URLParse(PrependScheme(RawUrl(b)))]
            /\ targetUrl' = [targetUrl EXCEPT ![r] = URLParse(PrependScheme(RawUrl(b)))]
            /\ calls' = [calls EXCEPT ![r] = Append(@, [fn |-> "scrapeWithSelenium",
                                    url |-> URLParse(PrependScheme(RawUrl(b)))])]
            /\ pc' = [pc EXCEPT ![r] = "selenium"]
            /\ UNCHANGED <<logArg, resume, toReturn>>
    /\ UNCHANGED <<env, homePage, methodUsed, finalData, finalError, finalStatus, seleniumResult,
                   fetchResult, logged, response, world>>

\* Line 388: the status taken from the Selenium result, 500 when it has none
\* or one below 400.
SeleniumStatus(result) ==
    IF Truthy(result, "status") /\ result.status >= 400 THEN result.status ELSE 500

\* Faulty variant of StatusAfterSelenium: every status is passed on.
StatusAfterSeleniumPassesAll(seleniumStatus) == seleniumStatus

\* Line 394: 5xx of the service becomes 502 Bad Gateway, 4xx is passed on.
StatusAfterSelenium(seleniumStatus) == IF seleniumStatus >= 500 THEN 502 ELSE seleniumStatus

\* Faulty variant of StatusAfterFetch: the status of the target site is the
\* status of the response whenever there is one.
StatusAfterFetchPassesAll(result, status) ==
    IF Truthy(result, "status") THEN result.status ELSE status

\* Faulty variant of StatusAfterFetch: the status set after the Selenium
\* failure is kept whenever Fetch gives no status of 400 or more.
StatusAfterFetchKeeps(result, status) ==
    LET st == IF Truthy(result, "status") /\ result.status >= 400 THEN result.status ELSE status
    IN  IF st < 400 THEN 500 ELSE st

\* Lines 434 and 440: the status of the response when both methods failed.
StatusAfterFetch(result, status) ==
    LET st == IF Truthy(result, "status") /\ result.status >= 400 THEN result.status
              ELSE IF status = 502 THEN 502 ELSE 500
    IN  IF st < 400 THEN 500 ELSE st

\* Lines 391 and 432: the two parts of finalError.
SeleniumFailed(reason) == <<"Selenium failed: ">> \o reason

\* Faulty variant of FetchAlsoFailed: = instead of +=, the Selenium part is lost.
FetchFailedOnly(error, reason) == <<"Fetch fallback failed: ">> \o reason

FetchAlsoFailed(error, reason) == error \o <<"; Fetch fallback failed: ">> \o reason

\* Line 441: the body of the response when both methods failed.
TotalFailureBody(error) ==
    [error |-> <<"Scraping failed after trying Selenium and Fetch. Details: ">> \o error]

\* The log records of lines 380, 390, 407-413 and 423-430.
SeleniumSuccessLog(url, data) ==
    [url |-> url, status |-> "Success", method |-> "Selenium", itemsFound |-> Len(data)]

\* Faulty variant of SeleniumFailureLog: the record names no method.
SeleniumFailureLogNoMethod(url, result) ==
    [url |-> url, status |-> "Failure", itemsFound |-> 0,
     errorMessage |-> FailReason(result, "Unknown Selenium failure"),
     statusCode |-> SeleniumStatus(result)]

SeleniumFailureLog(url, result) ==
    [url |-> url, status |-> "Failure", method |-> "Selenium", itemsFound |-> 0,
     errorMessage |-> FailReason(result, "Unknown Selenium failure"),
     statusCode |-> SeleniumStatus(result)]
\* Faulty variant of FetchSuccessLog: the record lacks the item count.
FetchSuccessLogNoCount(url, data, seleniumFailReason) ==
    [url |-> url, status |-> "Success", method |-> "Fetch",
     errorMessage |-> <<"Success via Fetch (Selenium failed: ">> \o seleniumFailReason \o <<")">>]

FetchSuccessLog(url, data, seleniumFailReason) ==
    [url |-> url, status |-> "Success", method |-> "Fetch", itemsFound |-> Len(data),
     errorMessage |-> <<"Success via Fetch (Selenium failed: ">> \o seleniumFailReason \o <<")">>]
FetchFailureLog(url, result, seleniumFailReason) ==
    Merge([url |-> url, status |-> "Failure", method |-> "Fetch", itemsFound |-> 0,
           errorMessage |-> <<"Fetch failed (">> \o FailReason(result, "Unknown Fetch failure")
                            \o <<") after Selenium failure (">> \o seleniumFailReason \o <<")">>],
          IF Has(result, "status") THEN [statusCode |-> result.status] ELSE <<>>)

\* fetchFailReason of the request (line 420).
fetchFailReason(r) == FailReason(fetchResult[r], "Unknown Fetch failure")

\* seleniumFailReason of the request (line 386), kept across the awaits.
seleniumFailReason(r) == FailReason(seleniumResult[r], "Unknown Selenium failure")

\* The replies heads[src] of the HEAD probes of one extractor run.
Heads(probes) == [Range(probes) -> HeadReplies]

\* Lines 372-390: scrapeWithSelenium returns.  Without an error the items are
\* logged and returned; with one the failure is logged before the fallback.
\* An exception out of the awaited call would go to the outer catch (443-454).
SeleniumContinues(r, result) ==
    /\ seleniumResult' = IF Has(result, "thrown") THEN seleniumResult
                         ELSE [seleniumResult EXCEPT ![r] = result]
    /\ IF Has(result, "thrown")
       THEN /\ Unhandled(r, result.thrown, targetUrl[r])
            /\ UNCHANGED <<methodUsed, finalData>>
       ELSE IF NoError(result)
       THEN /\ methodUsed' = [methodUsed EXCEPT ![r] = "Selenium"]
            /\ finalData' = [finalData EXCEPT ![r] = result.data]
            /\ AwaitLog(r, SeleniumSuccessLog(targetUrl[r], result.data),
                        "return", SuccessResponse(result.data))
       ELSE /\ AwaitLog(r, SeleniumFailureLog(targetUrl[r], result), "fallback", None)
            /\ UNCHANGED <<methodUsed, finalData>>
    /\ UNCHANGED <<env, homePage, body, targetUrl, validatedUrl, finalError, finalStatus, fetchResult,
                   logged, response>>

\* The awaited scrapeWithSelenium call (line 372), from its request to the
\* render service to its return, with the probes completing in order.
SeleniumReturns(r, reply, heads, order) ==
    /\ pc[r] = "selenium"
    /\ LET configured == env[r].seleniumServiceUrl
           probes == SeleniumProbes(configured, reply)
       IN  /\ reply = NoReply <=> ~configured
           /\ heads \in Heads(probes)
           /\ order \in Orders(Len(probes))
           /\ calls' = [calls EXCEPT ![r] =
                  @ \o (IF configured THEN <<[fn |-> "GET", to |-> "render service"]>> ELSE <<>>)
                    \o HeadCalls(probes)]
           /\ world' = [world EXCEPT ![r] = Append(@, [reply |-> reply, heads |-> heads])]
           /\ SeleniumContinues(r, scrapeWithSelenium(configured, reply, heads, order))

\* The awaited logScrapeEvent call completes with outcome.
LogCompletes(r, outcome) ==
    /\ pc[r] = "log"
    /\ outcome \in logScrapeEvent(env[r].notion)
    /\ logged' = [logged EXCEPT ![r] = Append(@, [data |-> logArg[r], outcome |-> outcome,
                                                   then |-> resume[r]])]
    /\ logArg' = [logArg EXCEPT ![r] = None]
    /\ resume' = [resume EXCEPT ![r] = "none"]

\* Faulty variant of Return: a failure inside the logging backend is thrown to
\* the handler, whose outer catch answers with status 500.
ReturnThrowsOnLogFailure(r, outcome) ==
    /\ resume[r] = "return"
    /\ LogCompletes(r, outcome)
    /\ response' = [response EXCEPT ![r] = Append(@,
           IF outcome = "failed"
           THEN JsonResponse(500, [error |-> <<"An unexpected server error occurred.">>,
                                   details |-> "Notion API error"])
           ELSE toReturn[r])]
    /\ toReturn' = [toReturn EXCEPT ![r] = None]
    /\ pc' = [pc EXCEPT ![r] = "done"]
    /\ UNCHANGED <<env, homePage, body, locals, calls, world>>

\* The return statement that follows an awaited log call (lines 346, 352,
\* 365, 382, 416, 453).
Return(r, outcome) ==
    /\ resume[r] = "return"
    /\ LogCompletes(r, outcome)
    /\ response' = [response EXCEPT ![r] = Append(@, toReturn[r])]
    /\ toReturn' = [toReturn EXCEPT ![r] = None]
    /\ pc' = [pc EXCEPT ![r] = "done"]
    /\ UNCHANGED <<env, homePage, body, locals, calls, world>>

\* Faulty variant of StartFallback: a render failure without a status (a
\* timeout, a network error) is not followed by anything.
StartFallbackOnStatusOnly(r, outcome) ==
    /\ resume[r] = "fallback"
    /\ Has(seleniumResult[r], "status")
    /\ LogCompletes(r, outcome)
    /\ finalError' = [finalError EXCEPT ![r] = SeleniumFailed(seleniumFailReason(r))]
    /\ finalStatus' = [finalStatus EXCEPT ![r] =
                          StatusAfterSelenium(SeleniumStatus(seleniumResult[r]))]
    /\ calls' = [calls EXCEPT ![r] = Append(@, [fn |-> "scrapeWithFetch", url |-> targetUrl[r]])]
    /\ pc' = [pc EXCEPT ![r] = "fetch"]
    /\ UNCHANGED <<env, homePage, body, targetUrl, validatedUrl, methodUsed, finalData, seleniumResult,
                   fetchResult, toReturn, response, world>>

\* Lines 391-398: after the failure of Selenium is logged, finalError and
\* finalStatus are set and scrapeWithFetch is called.
StartFallback(r, outcome) ==
    /\ resume[r] = "fallback"
    /\ LogCompletes(r, outcome)
    /\ finalError' = [finalError EXCEPT ![r] = SeleniumFailed(seleniumFailReason(r))]
    /\ finalStatus' = [finalStatus EXCEPT ![r] =
                          StatusAfterSelenium(SeleniumStatus(seleniumResult[r]))]
    /\ calls' = [calls EXCEPT ![r] = Append(@, [fn |-> "scrapeWithFetch", url |-> targetUrl[r]])]
    /\ pc' = [pc EXCEPT ![r] = "fetch"]
    /\ UNCHANGED <<env, homePage, body, targetUrl, validatedUrl, methodUsed, finalData, seleniumResult,
                   fetchResult, toReturn, response, world>>

\* Faulty variant of FetchContinues: the set of URLs seen is kept across
\* requests, so a URL another request has extracted is left out.
FetchContinuesSharedSet(r, result) ==
    LET seen == UNION {{fetchResult[q].data[i].src : i \in DOMAIN fetchResult[q].data} :
                          q \in {q \in Reqs \ {r} : fetchResult[q] # None}}
        kept == [result EXCEPT !.data = SelectSeq(result.data, LAMBDA it : it.src \notin seen)]
    IN  /\ fetchResult' = [fetchResult EXCEPT ![r] = kept]
        /\ IF NoError(kept)
           THEN /\ methodUsed' = [methodUsed EXCEPT ![r] = "Fetch"]
                /\ finalData' = [finalData EXCEPT ![r] = kept.data]
                /\ AwaitLog(r, FetchSuccessLog(targetUrl[r], kept.data, seleniumFailReason(r)),
                            "return", SuccessResponse(kept.data))
           ELSE /\ AwaitLog(r, FetchFailureLog(targetUrl[r], kept, seleniumFailReason(r)),
                            "bothFailed", None)
                /\ UNCHANGED <<methodUsed, finalData>>
        /\ UNCHANGED <<env, homePage, body, targetUrl, validatedUrl, finalError, finalStatus, seleniumResult,
                       logged, response>>

\* Lines 398-430: scrapeWithFetch returns.
FetchContinues(r, result) ==
    /\ fetchResult' = IF Has(result, "thrown") THEN fetchResult
                      ELSE [fetchResult EXCEPT ![r] = result]
    /\ IF Has(result, "thrown")
       THEN /\ Unhandled(r, result.thrown, targetUrl[r])
            /\ UNCHANGED <<methodUsed, finalData>>
       ELSE IF NoError(result)
       THEN /\ methodUsed' = [methodUsed EXCEPT ![r] = "Fetch"]
            /\ finalData' = [finalData EXCEPT ![r] = result.data]
            /\ AwaitLog(r, FetchSuccessLog(targetUrl[r], result.data, seleniumFailReason(r)),
                        "return", SuccessResponse(result.data))
       ELSE /\ AwaitLog(r, FetchFailureLog(targetUrl[r], result, seleniumFailReason(r)),
                        "bothFailed", None)
            /\ UNCHANGED <<methodUsed, finalData>>
    /\ UNCHANGED <<env, homePage, body, targetUrl, validatedUrl, finalError, finalStatus, seleniumResult,
                   logged, response>>

\* The awaited scrapeWithFetch call (line 398), from its request to the target
\* site to its return, with the probes completing in order.
FetchReturns(r, reply, heads, order) ==
    /\ pc[r] = "fetch"
    /\ LET probes == FetchProbes(reply, validatedUrl[r])
       IN  /\ heads \in Heads(probes)
           /\ order \in Orders(Len(probes))
           /\ calls' = [calls EXCEPT ![r] =
                  @ \o <<[fn |-> "GET", to |-> "target site"]>> \o HeadCalls(probes)]
           /\ world' = [world EXCEPT ![r] = Append(@, [reply |-> reply, heads |-> heads])]
           /\ FetchContinues(r, scrapeWithFetch(validatedUrl[r], reply, heads, order))

\* Lines 431-441: after the failure of Fetch is logged, the combined error is
\* returned.
ReturnTotalFailure(r, outcome) ==
    /\ resume[r] = "bothFailed"
    /\ LogCompletes(r, outcome)
    /\ finalError' = [finalError EXCEPT ![r] = FetchAlsoFailed(@, fetchFailReason(r))]
    /\ finalStatus' = [finalStatus EXCEPT ![r] = StatusAfterFetch(fetchResult[r], @)]
    /\ response' = [response EXCEPT ![r] = Append(@,
           JsonResponse(StatusAfterFetch(fetchResult[r], finalStatus[r]),
                        TotalFailureBody(FetchAlsoFailed(finalError[r], fetchFailReason(r)))))]
    /\ pc' = [pc EXCEPT ![r] = "done"]
    /\ UNCHANGED <<env, homePage, body, targetUrl, validatedUrl, methodUsed, finalData, seleniumResult,
                   fetchResult, toReturn, calls, world>>

\* ------------------------------------------------------------------------
\* Specification: one request, every input and every reply
\* ------------------------------------------------------------------------

LogOutcomes == {"skipped", "logged", "failed"}

Handler(r) ==
    \/ \E b \in RequestBodies : ParseBody(r, b)
    \/ /\ pc[r] = "selenium"
       /\ \E reply \in SeleniumReplies \cup {NoReply} :
         \E heads \in Heads(SeleniumProbes(env[r].seleniumServiceUrl, reply)) :
         \E order \in Orders(Len(SeleniumProbes(env[r].seleniumServiceUrl, reply))) :
            SeleniumReturns(r, reply, heads, order)
    \/ \E o \in LogOutcomes : Return(r, o)
    \/ \E o \in LogOutcomes : StartFallback(r, o)
    \/ /\ pc[r] = "fetch"
       /\ \E reply \in FetchReplies :
         \E heads \in Heads(FetchProbes(reply, validatedUrl[r])) :
         \E order \in Orders(Len(FetchProbes(reply, validatedUrl[r]))) :
            FetchReturns(r, reply, heads, order)
    \/ \E o \in LogOutcomes : ReturnTotalFailure(r, o)

Init ==
    /\ InitRequests
    /\ env \in [Reqs -> Envs]
    /\ env["r2"] = env["r1"]

Next == Handler("r1")

Spec == Init /\ [][Next]_vars

\* ------------------------------------------------------------------------
\* One request with fewer probe replies.  For its caller a probe ends in one
\* of two ways, without a size or with one; the specifications that follow a
\* request to its end under fairness, or compare two requests, draw the
\* replies of the HEAD probes from one reply of each kind.  The steps of a
\* request fall in two groups: those that follow an answer of request.json(),
\* of the render service or of the target site and its probes (each of these
\* calls ends in a reply, an error or its AbortSignal timeout), and those that
\* follow the completion of the awaited logScrapeEvent call.
\* ------------------------------------------------------------------------

HeadRepliesFew ==
    {[kind |-> "timeout"], [kind |-> "response", status |-> 200, contentLength |-> "1024"]}

HeadsFew(probes) == [Range(probes) -> HeadRepliesFew]

Responds(r) ==
    \/ \E b \in RequestBodies : ParseBody(r, b)
    \/ /\ pc[r] = "selenium"
       /\ \E reply \in SeleniumReplies \cup {NoReply} :
         \E heads \in HeadsFew(SeleniumProbes(env[r].seleniumServiceUrl, reply)) :
         \E order \in Orders(Len(SeleniumProbes(env[r].seleniumServiceUrl, reply))) :
            SeleniumReturns(r, reply, heads, order)
    \/ /\ pc[r] = "fetch"
       /\ \E reply \in FetchReplies :
         \E heads \in HeadsFew(FetchProbes(reply, validatedUrl[r])) :
         \E order \in Orders(Len(FetchProbes(reply, validatedUrl[r]))) :
            FetchReturns(r, reply, heads, order)

LogReturns(r) ==
    \E o \in LogOutcomes : Return(r, o) \/ StartFallback(r, o) \/ ReturnTotalFailure(r, o)

HandlerFew(r) == Responds(r) \/ LogReturns(r)

NextFew == HandlerFew("r1")

\* Every external call ends, the pages.create call of the logger included.
SpecLive == Init /\ [][NextFew]_vars /\ WF_vars(Responds("r1")) /\ WF_vars(LogReturns("r1"))

\* The pages.create call of the logger (notion.ts line 104, no timeout of its
\* own in the source) may never complete; logScrapeEvent still returns at once
\* when Notion is not configured (line 43).
SpecLogMayHang ==
    Init /\ [][NextFew]_vars /\ WF_vars(Responds("r1"))
         /\ WF_vars(~env["r1"].notion /\ LogReturns("r1"))

\* ------------------------------------------------------------------------
\* Specification: two runs on the same input.  Request r1 runs as in Spec,
\* its probes drawing from HeadRepliesFew;
\* request r2 then runs under the same seleniumServiceUrl setting, with the
\* same body and the same replies of the render service, the target site and
\* the HEAD probes, while the Notion configuration, the outcome of every
\* logScrapeEvent call and the order in which the probes complete are chosen
\* anew.
\* ------------------------------------------------------------------------

Replay(r, of) ==
    \/ ParseBody(r, body[of])
    \/ /\ pc[r] = "selenium" /\ Len(world[of]) >= 1
       /\ \E order \in Orders(Cardinality(DOMAIN world[of][1].heads)) :
             SeleniumReturns(r, world[of][1].reply, world[of][1].heads, order)
    \/ \E o \in LogOutcomes : Return(r, o)
    \/ \E o \in LogOutcomes : StartFallback(r, o)
    \/ /\ pc[r] = "fetch" /\ Len(world[of]) >= 2
       /\ \E order \in Orders(Cardinality(DOMAIN world[of][2].heads)) :
             FetchReturns(r, world[of][2].reply, world[of][2].heads, order)
    \/ \E o \in LogOutcomes : ReturnTotalFailure(r, o)

InitTwin ==
    /\ InitRequests
    /\ env \in [Reqs -> Envs]
    /\ env["r2"].seleniumServiceUrl = env["r1"].seleniumServiceUrl

NextTwin ==
    \/ HandlerFew("r1")
    \/ pc["r1"] = "done" /\ Replay("r2", "r1")

SpecTwin == InitTwin /\ [][NextTwin]_vars

\* ------------------------------------------------------------------------
\* Specification: the probes one by one.  An extractor run is followed from
\* the answer to its GET request through the launch of its probes and the end
\* of each of them, in any order, to its return.  getImageSize sends its HEAD
\* request when it is called (line 44, before its first await), and the loops
\* that call it (lines 127-152 through the async function of line 138, and
\* the map of lines 300-309) contain no await of their own.
\* ------------------------------------------------------------------------

\* Faulty variant of LaunchedBeforeAwait: a loop that awaits each probe before
\* the next turn has launched only the first when it first suspends.
LaunchedOneAtATime(probes) == IF probes = <<>> THEN <<>> ELSE <<probes[1]>>

\* The probes launched when the extractor first suspends after its loop, at
\* the await of Promise.all (lines 173 and 312): all of them.
LaunchedBeforeAwait(probes) == probes

\* The probes of the extractor run in progress that were launched / have ended.
Launched(r) == {calls[r][i].url : i \in {j \in DOMAIN calls[r] : calls[r][j].fn = "HEAD"}}
Ended(r) == {calls[r][i].url : i \in {j \in DOMAIN calls[r] : calls[r][j].fn = "settled"}}

\* The order in which the probes ended, as indexes into probes.
EndOrder(r, probes) ==
    LET ends == SelectSeq(calls[r], LAMBDA c : c.fn = "settled")
    IN  [k \in DOMAIN ends |-> CHOOSE i \in DOMAIN probes : probes[i] = ends[k].url]

\* Lines 101-173: the render service answers; on a usable answer the loops run
\* and scrapeWithSelenium suspends at Promise.all, otherwise it returns.
SeleniumLaunches(r, reply, heads) ==
    /\ pc[r] = "selenium"
    /\ LET configured == env[r].seleniumServiceUrl
           probes == SeleniumProbes(configured, reply)
       IN  /\ reply = NoReply <=> ~configured
           /\ heads \in HeadsFew(probes)
           /\ calls' = [calls EXCEPT ![r] =
                  @ \o (IF configured THEN <<[fn |-> "GET", to |-> "render service"]>> ELSE <<>>)
                    \o HeadCalls(LaunchedBeforeAwait(probes))]
           /\ world' = [world EXCEPT ![r] = Append(@, [reply |-> reply, heads |-> heads])]
           /\ IF probes = <<>>
              THEN SeleniumContinues(r, scrapeWithSelenium(configured, reply, heads, <<>>))
              ELSE /\ pc' = [pc EXCEPT ![r] = "selenium probes"]
                   /\ UNCHANGED <<env, homePage, body, locals, logArg, resume, toReturn, logged, response>>

\* Lines 204-312: the target site answers; on a page the scan runs and
\* scrapeWithFetch suspends at Promise.all, otherwise it returns.
FetchLaunches(r, reply, heads) ==
    /\ pc[r] = "fetch"
    /\ LET probes == FetchProbes(reply, validatedUrl[r])
       IN  /\ heads \in HeadsFew(probes)
           /\ calls' = [calls EXCEPT ![r] =
                  @ \o <<[fn |-> "GET", to |-> "target site"]>>
                    \o HeadCalls(LaunchedBeforeAwait(probes))]
           /\ world' = [world EXCEPT ![r] = Append(@, [reply |-> reply, heads |-> heads])]
           /\ IF probes = <<>>
              THEN FetchContinues(r, scrapeWithFetch(validatedUrl[r], reply, heads, <<>>))
              ELSE /\ pc' = [pc EXCEPT ![r] = "fetch probes"]
                   /\ UNCHANGED <<env, homePage, body, locals, logArg, resume, toReturn, logged, response>>

\* Lines 41-77: a probe that is outstanding ends (getImageSize never rejects).
ProbeEnds(r, u) ==
    /\ pc[r] \in {"selenium probes", "fetch probes"}
    /\ u \in Launched(r) \ Ended(r)
    /\ calls' = [calls EXCEPT ![r] = Append(@, [fn |-> "settled", url |-> u])]
    /\ UNCHANGED <<env, homePage, pc, body, locals, logArg, resume, toReturn, logged, response, world>>

\* Lines 173-179: Promise.all resolves once every promise of the list has, and
\* scrapeWithSelenium returns.
SeleniumCompletes(r) ==
    /\ pc[r] = "selenium probes"
    /\ LET configured == env[r].seleniumServiceUrl
           reply == world[r][1].reply
           probes == SeleniumProbes(configured, reply)
       IN  /\ Range(probes) \subseteq Ended(r)
           /\ SeleniumContinues(r, scrapeWithSelenium(configured, reply, world[r][1].heads,
                                                      EndOrder(r, probes)))
    /\ UNCHANGED <<calls, world>>

\* Lines 312-315: Promise.all resolves and scrapeWithFetch returns.
FetchCompletes(r) ==
    /\ pc[r] = "fetch probes"
    /\ LET reply == world[r][2].reply
           probes == FetchProbes(reply, validatedUrl[r])
       IN  /\ Range(probes) \subseteq Ended(r)
           /\ FetchContinues(r, scrapeWithFetch(validatedUrl[r], reply, world[r][2].heads,
                                                EndOrder(r, probes)))
    /\ UNCHANGED <<calls, world>>

HandlerProbes(r) ==
    \/ \E b \in RequestBodies : ParseBody(r, b)
    \/ /\ pc[r] = "selenium"
       /\ \E reply \in SeleniumReplies \cup {NoReply} :
         \E heads \in HeadsFew(SeleniumProbes(env[r].seleniumServiceUrl, reply)) :
            SeleniumLaunches(r, reply, heads)
    \/ /\ pc[r] = "fetch"
       /\ \E reply \in FetchReplies :
         \E heads \in HeadsFew(FetchProbes(reply, validatedUrl[r])) :
            FetchLaunches(r, reply, heads)
    \/ /\ pc[r] \in {"selenium probes", "fetch probes"}
       /\ \E u \in Launched(r) : ProbeEnds(r, u)
    \/ SeleniumCompletes(r)
    \/ FetchCompletes(r)
    \/ LogReturns(r)

NextProbes == HandlerProbes("r1")

SpecProbes == Init /\ [][NextProbes]_vars

\* ------------------------------------------------------------------------
\* Specification: two requests in flight.  The handler is an async function;
\* between two of its awaits one invocation runs alone, and at an await the
\* other invocation may go on.  Each invocation has its own locals and each
\* extractor run its own uniqueSrcs and item lists (lines 123-124, 155 and
\* 218-222); the module holds no mutable binding.  The two requests draw
\* their replies from a few render replies and pages, two of them with the
\* same URLs.
\* ------------------------------------------------------------------------

PairSeleniumReplies ==
    {[kind |-> "timeout"],
     [kind |-> "response", status |-> 404, text |-> "upstream body"],
     [kind |-> "response", status |-> 200,
      body |-> JsonObject([images |-> Arr(<<ImgBAbs, ImgB, ImgA>>), videos |-> Arr(<<VidV>>)])]}

PairFetchReplies ==
    {[kind |-> "response", status |-> 404, contentType |-> "text/html"],
     [kind |-> "response", status |-> 200, contentType |-> "text/html; charset=utf-8",
      html |-> <<[tag |-> "img", src |-> ImgB, alt |-> [kind |-> "text", text |-> "b"]]>>],
     [kind |-> "response", status |-> 200, contentType |-> "text/html; charset=utf-8",
      html |-> <<[tag |-> "img", src |-> ImgB],
                 [tag |-> "img", src |-> ImgBAbs, alt |-> [kind |-> "text", text |-> "b"]],
                 [tag |-> "video", src |-> ImgB, poster |-> ImgA, sources |-> <<>>]>>]}

HandlerPair(r) ==
    \/ \E b \in RequestBodies : ParseBody(r, b)
    \/ /\ pc[r] = "selenium"
       /\ \E reply \in PairSeleniumReplies \cup {NoReply} :
         \E heads \in HeadsFew(SeleniumProbes(env[r].seleniumServiceUrl, reply)) :
         \E order \in Orders(Len(SeleniumProbes(env[r].seleniumServiceUrl, reply))) :
            SeleniumReturns(r, reply, heads, order)
    \/ /\ pc[r] = "fetch"
       /\ \E reply \in PairFetchReplies :
         \E heads \in HeadsFew(FetchProbes(reply, validatedUrl[r])) :
         \E order \in Orders(Len(FetchProbes(reply, validatedUrl[r]))) :
            FetchReturns(r, reply, heads, order)
    \/ LogReturns(r)

NextPair == HandlerPair("r1") \/ HandlerPair("r2")

SpecPair == Init /\ [][NextPair]_vars

\* ------------------------------------------------------------------------
\* Specification: the page.  handleScrape of src/app/page.tsx (lines 95-151)
\* with the events of the form and of the filter controls.  A submit handler
\* runs to its first await before the next event is dispatched, and React
\* commits the state updates of an event handler before the next event, so the
\* isLoading that handleScrape reads is the one last set.  The answers to the
\* request are those of the route handler and the failures of the network.
\* The page number and the image dimensions are left out.
\* ------------------------------------------------------------------------

handlerVars == <<env, pc, body, targetUrl, validatedUrl, methodUsed, finalData, finalError,
                 finalStatus, seleniumResult, fetchResult, logArg, resume, toReturn, logged,
                 response, calls, world>>

Null == [null |-> TRUE]

PageUrls == {"", "example.com"}

ItemJpg == [type |-> "image", src |-> "https://cdn.example/a.JPG", extension |-> "jpg"]
ItemMp4 == [type |-> "video", src |-> "https://cdn.example/v.mp4", extension |-> "mp4"]
ItemPlain == [type |-> "image", src |-> "https://example.com/i/b"]

\* What fetch('/api/scrape') and response.json() give (lines 109-114).
ApiReplies ==
    {[kind |-> "neterror"],
     [kind |-> "response", ok |-> FALSE, json |-> FALSE],
     [kind |-> "response", ok |-> FALSE, json |-> TRUE, result |-> [error |-> "Invalid URL format"]],
     [kind |-> "response", ok |-> FALSE, json |-> TRUE, result |-> <<>>],
     [kind |-> "response", ok |-> TRUE, json |-> TRUE, result |-> <<>>],
     [kind |-> "response", ok |-> TRUE, json |-> TRUE, result |-> [data |-> <<>>]],
     [kind |-> "response", ok |-> TRUE, json |-> TRUE, result |-> [data |-> <<ItemMp4>>]],
     [kind |-> "response", ok |-> TRUE, json |-> TRUE,
      result |-> [data |-> <<ItemJpg, ItemMp4, ItemPlain>>]]}

\* Faulty variant of SubmitIgnored: isLoading is not looked at.
SubmitIgnoredOnEmptyUrl(h) == h.url = ""

\* !url || isLoading (line 97)
SubmitIgnored(h) == h.url = "" \/ h.isLoading

\* Lines 99-105: the state updates at the start of an extraction.
StartScrape(h) ==
    [h EXCEPT !.isLoading = TRUE, !.scrapeError = Null, !.allMedia = <<>>,
              !.availableExtensions = {}, !.selectedExtensions = {}, !.showFilters = FALSE]

\* Lines 109-142 up to the state updates: the message of the exception thrown
\* in the try block, or the items of the answer.
ScrapeOutcome(reply) ==
    IF reply.kind = "neterror" THEN [thrown |-> "Failed to fetch"]
    ELSE IF ~reply.json THEN [thrown |-> "Unexpected token < in JSON"]
    ELSE IF ~reply.ok
    THEN [thrown |-> IF Has(reply.result, "error") THEN reply.result.error
                     ELSE "API Error: Internal Server Error"]
    ELSE IF Has(reply.result, "data") /\ Len(reply.result.data) > 0
    THEN [data |-> reply.result.data]
    ELSE [data |-> <<>>]

\* Lines 126-150: the state updates after the answer, the finally included.
EndScrape(h, outcome) ==
    IF Has(outcome, "thrown")
    THEN [h EXCEPT !.scrapeError = [message |-> outcome.thrown], !.isLoading = FALSE]
    ELSE IF outcome.data # <<>>
    THEN [h EXCEPT !.allMedia = outcome.data,
                   !.availableExtensions =
                       {outcome.data[i].extension :
                           i \in {j \in DOMAIN outcome.data : Has(outcome.data[j], "extension")}},
                   !.selectedExtensions = {},
                   !.showFilters = TRUE,
                   !.isLoading = FALSE]
    ELSE [h EXCEPT !.allMedia = <<>>, !.isLoading = FALSE]

\* Lines 95-105: the form is submitted.
Submit ==
    /\ homePage.at = "idle"
    /\ homePage' = IF SubmitIgnored(homePage) THEN [homePage EXCEPT !.last = "ignored"]
                   ELSE [StartScrape(homePage) EXCEPT !.at = "sending", !.last = "submit"]
    /\ UNCHANGED handlerVars

\* Lines 108-113: fetch is called and handleScrape waits for the answer.
SendRequest ==
    /\ homePage.at = "sending"
    /\ homePage' = [homePage EXCEPT !.inFlight = Append(@, [url |-> homePage.url]),
                                    !.at = "idle"]
    /\ UNCHANGED handlerVars

\* Lines 114-150: the answer to the oldest request arrives.
Answered(reply) ==
    /\ homePage.at = "idle"
    /\ homePage.inFlight # <<>>
    /\ homePage' = [EndScrape(homePage, ScrapeOutcome(reply))
                       EXCEPT !.inFlight = Tail(@), !.last = "answer"]
    /\ UNCHANGED handlerVars

\* The input of UrlInputForm, disabled while isLoading.
SetUrl(u) ==
    /\ homePage.at = "idle" /\ ~homePage.isLoading
    /\ homePage' = [homePage EXCEPT !.url = u, !.last = "input"]
    /\ UNCHANGED handlerVars

\* Lines 154-165 and 285: the filter controls, rendered while allMedia holds
\* an item.
TypeToggle(type) ==
    /\ homePage.at = "idle" /\ homePage.allMedia # <<>>
    /\ homePage' = [homePage EXCEPT !.selectedTypes[type] = ~@, !.last = "filter"]
    /\ UNCHANGED handlerVars

ExtensionToggle(extension) ==
    /\ homePage.at = "idle" /\ homePage.allMedia # <<>>
    /\ extension \in homePage.availableExtensions
    /\ homePage' = [homePage EXCEPT
                       !.selectedExtensions = IF extension \in @ THEN @ \ {extension}
                                              ELSE @ \cup {extension},
                       !.last = "filter"]
    /\ UNCHANGED handlerVars

ToggleShowFilters ==
    /\ homePage.at = "idle" /\ homePage.allMedia # <<>>
    /\ homePage' = [homePage EXCEPT !.showFilters = ~@, !.last = "filter"]
    /\ UNCHANGED handlerVars

NextPage ==
    \/ Submit
    \/ SendRequest
    \/ \E reply \in ApiReplies : Answered(reply)
    \/ \E u \in PageUrls : SetUrl(u)
    \/ \E type \in {"image", "video"} : TypeToggle(type)
    \/ \E extension \in {"jpg", "mp4"} : ExtensionToggle(extension)
    \/ ToggleShowFilters

InitPage ==
    /\ InitRequests
    /\ env = [r \in Reqs |-> [seleniumServiceUrl |-> FALSE, notion |-> FALSE]]

SpecPage == InitPage /\ [][NextPage]_vars

\* ------------------------------------------------------------------------
\* Properties of the orchestrator
\* ------------------------------------------------------------------------

\* The number of entries of calls[r] made to fn.
CountCalls(r, fn) == Cardinality({i \in DOMAIN calls[r] : calls[r][i].fn = fn})

Returned(r) == response[r] # <<>>

\* scrapeWithSelenium has returned to request r, without / with an error.
RenderSucceeded(r) == seleniumResult[r] # None /\ ~Has(seleniumResult[r], "error")
RenderFailed(r) == seleniumResult[r] # None /\ Has(seleniumResult[r], "error")
StaticSucceeded(r) == fetchResult[r] # None /\ ~Has(fetchResult[r], "error")
StaticFailed(r) == fetchResult[r] # None /\ Has(fetchResult[r], "error")

\* C1: once the render-service client has returned a result without an
\* error, the static extractor is never invoked for the request, the only
\* thing the handler still does is return, and what it returns is status 200
\* with exactly the items of that result (an empty list included).
C1_RenderSuccessIsTerminal ==
    \A r \in Reqs : RenderSucceeded(r) =>
        /\ CountCalls(r, "scrapeWithFetch") = 0
        /\ \A i \in DOMAIN calls[r] : calls[r][i].fn = "GET" => calls[r][i].to = "render service"
        /\ pc[r] \in {"log", "done"}
        /\ pc[r] = "log" =>
              /\ resume[r] = "return"
              /\ toReturn[r] = [status |-> 200, body |-> [data |-> seleniumResult[r].data]]
        /\ pc[r] = "done" =>
              response[r] = <<[status |-> 200, body |-> [data |-> seleniumResult[r].data]]>>

\* C1 happens: a request is answered after a render success with zero items.
C1_Witness ==
    \E r \in Reqs : pc[r] = "done" /\ RenderSucceeded(r) /\ seleniumResult[r].data = <<>>

\* A second case of C1: a render success with two items is answered.
C1_WitnessItems ==
    \E r \in Reqs : pc[r] = "done" /\ RenderSucceeded(r) /\ Len(seleniumResult[r].data) = 2

\* C2: when the URL normalized and the render-service client returned an
\* error, no response is returned before the static extractor has been invoked,
\* it is invoked once and never twice, and with the normalized URL of the
\* request.
C2_FallbackAlwaysAttempted ==
    \A r \in Reqs :
        /\ CountCalls(r, "scrapeWithFetch") <= 1
        /\ (RenderFailed(r) /\ Returned(r)) =>
              /\ CountCalls(r, "scrapeWithFetch") = 1
              /\ \A i \in DOMAIN calls[r] : calls[r][i].fn = "scrapeWithFetch" =>
                    /\ calls[r][i].url = URLParse(PrependScheme(RawUrl(body[r])))
                    /\ \E j \in 1..(i - 1) : calls[r][j] = [fn |-> "scrapeWithSelenium",
                                                             url |-> calls[r][i].url]

\* C2 happens: a request whose render call timed out has been answered.
C2_Witness ==
    \E r \in Reqs : Returned(r) /\ RenderFailed(r)
                    /\ seleniumResult[r].error = <<"Selenium Service request timed out.">>

\* C3: the failure of the render service is handed to the logger, as a
\* Failure record with method Selenium and the failure reason, before the
\* static extractor is invoked; when the static extractor then succeeds the
\* response is status 200 with exactly its items and nothing else (no error
\* field, so no text of the render failure).
C3_FallbackSuccess ==
    \A r \in Reqs :
        /\ (RenderFailed(r) /\ CountCalls(r, "scrapeWithFetch") = 0 /\ pc[r] # "done") =>
              /\ pc[r] = "log"
              /\ logArg[r].status = "Failure"
              /\ Has(logArg[r], "method") /\ logArg[r].method = "Selenium"
              /\ logArg[r].errorMessage = seleniumResult[r].error
        /\ CountCalls(r, "scrapeWithFetch") >= 1 =>
              /\ Len(logged[r]) >= 1
              /\ logged[r][1].data.status = "Failure"
              /\ Has(logged[r][1].data, "method") /\ logged[r][1].data.method = "Selenium"
              /\ logged[r][1].data.errorMessage = seleniumResult[r].error
        /\ (RenderFailed(r) /\ StaticSucceeded(r) /\ Returned(r)) =>
              response[r] = <<[status |-> 200, body |-> [data |-> fetchResult[r].data]]>>

\* C3 happens: after a render failure the static extractor found one item
\* and the request has been answered.
C3_Witness ==
    \E r \in Reqs : Returned(r) /\ RenderFailed(r) /\ StaticSucceeded(r)
                    /\ Len(fetchResult[r].data) = 1

\* The status and the error message of the response of request r.
ResponseStatus(r) == response[r][1].status
ResponseError(r) == response[r][1].body.error

\* Both methods failed and the request has been answered.
TotalFailure(r) == RenderFailed(r) /\ StaticFailed(r) /\ Returned(r)

\* The status the static extractor reported is a number of 400 or more.
StaticStatusInformative(r) == Truthy(fetchResult[r], "status") /\ fetchResult[r].status >= 400

\* C4 as stated: when both paths fail the error message contains both failure
\* reasons and the status is in 500..599, whatever the two failures are.
C4_Original ==
    \A r \in Reqs : TotalFailure(r) =>
        /\ Contains(ResponseError(r), seleniumResult[r].error)
        /\ Contains(ResponseError(r), fetchResult[r].error)
        /\ ResponseStatus(r) \in 500..599

\* C4 amended: when both paths fail the error message contains both failure
\* reasons and the status is in 400..599; it is in 500..599 unless the static
\* failure carries a 4xx status, and then it is that 4xx status.
C4_TotalFailureComposition ==
    \A r \in Reqs : TotalFailure(r) =>
        /\ Contains(ResponseError(r), seleniumResult[r].error)
        /\ Contains(ResponseError(r), fetchResult[r].error)
        /\ IF StaticStatusInformative(r) /\ fetchResult[r].status < 500
           THEN ResponseStatus(r) = fetchResult[r].status
           ELSE ResponseStatus(r) \in 500..599

\* C4 happens: both paths failed, the static one with 404, and the request
\* has been answered.
C4_Witness ==
    \E r \in Reqs : TotalFailure(r) /\ Truthy(fetchResult[r], "status")
                    /\ fetchResult[r].status = 404

\* The status recorded at step 2 for the render failure, from the result of
\* scrapeWithSelenium: its own status when that is in 400..499, else 502.
Step2Status(r) ==
    IF Truthy(seleniumResult[r], "status") /\ seleniumResult[r].status \in 400..499
    THEN seleniumResult[r].status ELSE 502

RejectedInput(b) ==
    /\ b # None /\ b.json /\ ~b.isNull
    /\ \/ ~Has(b, "url")
       \/ b.url.type # "string"
       \/ b.url.rest \in {"", "exa mple"}

\* C6: for such a body neither extractor is invoked and no request is sent
\* (no render call, no static call, no HEAD probe); the only thing the handler
\* does is return a failure with status 400.
C6_InvalidInputRejected ==
    \A r \in Reqs : RejectedInput(body[r]) =>
        /\ calls[r] = <<>>
        /\ seleniumResult[r] = None /\ fetchResult[r] = None
        /\ pc[r] \in {"log", "done"}
        /\ pc[r] = "log" =>
              resume[r] = "return" /\ toReturn[r].status = 400 /\ Has(toReturn[r].body, "error")
        /\ pc[r] = "done" =>
              /\ Len(response[r]) = 1
              /\ ResponseStatus(r) = 400
              /\ DOMAIN response[r][1].body = {"error"}

\* C6 happens: a url without scheme that is no URL after the prefix is added
\* has been answered.
C6_Witness ==
    \E r \in Reqs : /\ Returned(r) /\ RejectedInput(body[r]) /\ Has(body[r], "url")
                    /\ body[r].url = [type |-> "string", scheme |-> "", rest |-> "exa mple"]
                    /\ logged[r][1].data.url = [scheme |-> "https://", rest |-> "exa mple"]

\* C7: the handler is always at one of its awaits or finished, it can always
\* take a step until it has returned, it returns exactly one response, and
\* the exception the model has (reading url of a null body) is answered with
\* status 500 and an error.
C7_ExceptionsAnswered ==
    \A r \in Reqs :
        /\ pc[r] \in {"start", "selenium", "fetch", "log", "done"}
        /\ Len(response[r]) <= 1
        /\ pc[r] = "done" <=> Len(response[r]) = 1
        /\ pc[r] # "done" => ENABLED Handler(r)
        /\ (body[r] # None /\ body[r].json /\ body[r].isNull) =>
              /\ calls[r] = <<>>
              /\ pc[r] = "log" => toReturn[r].status = 500
              /\ pc[r] = "done" => ResponseStatus(r) = 500 /\ Has(response[r][1].body, "error")

\* C7 happens: a request whose body is null has been answered.
C7_Witness ==
    \E r \in Reqs : Returned(r) /\ body[r].json /\ body[r].isNull

C9_TerminalLogRecord ==
    \A r \in Reqs :
        /\ pc[r] = "log" => response[r] = <<>> /\ logArg[r] # None
        /\ Returned(r) =>
              LET n == Len(logged[r])
                  last == logged[r][n]
                  rec == last.data
                  resp == response[r][1].body
              IN  /\ n >= 1
                  /\ {i \in 1..n : logged[r][i].then # "fallback"} = {n}
                  /\ rec.status = "Success" <=> Has(resp, "data")
                  /\ rec.status = "Failure" <=> Has(resp, "error")
                  /\ Has(resp, "data") # Has(resp, "error")
                  /\ (rec.status = "Success" \/ last.then = "bothFailed") =>
                        /\ Has(rec, "method") /\ Has(rec, "itemsFound")
                        /\ rec.method = IF fetchResult[r] # None THEN "Fetch" ELSE "Selenium"
                        /\ rec.itemsFound = IF Has(resp, "data") THEN Len(resp.data) ELSE 0

\* C9 happens: a request answered by the static extractor with two items,
\* after two log records.
C9_Witness ==
    \E r \in Reqs : Returned(r) /\ StaticSucceeded(r) /\ Len(logged[r]) = 2
                    /\ Len(fetchResult[r].data) = 2

\* The outcomes of the logScrapeEvent calls of request r, in order.
LogOutcomesOf(r) == [i \in DOMAIN logged[r] |-> logged[r][i].outcome]

\* Two requests got the same input: the same configuration of the render
\* service, the same body, the same replies from the collaborators.
SameInput(a, b) ==
    /\ env[a].seleniumServiceUrl = env[b].seleniumServiceUrl
    /\ body[a] = body[b]
    /\ world[a] = world[b]

\* C10: two answered requests that got the same input have the same response
\* (status and data list or error message), have made the same calls and have
\* handed the logger the same records, whatever the logger did with them.
C10_LoggingIndependence ==
    \A a \in Reqs : \A b \in Reqs :
        (pc[a] = "done" /\ pc[b] = "done" /\ SameInput(a, b)) =>
            /\ response[a] = response[b]
            /\ calls[a] = calls[b]
            /\ [i \in DOMAIN logged[a] |-> logged[a][i].data]
                  = [i \in DOMAIN logged[b] |-> logged[b][i].data]

\* C10 happens: two requests with the same input, both methods failing, have
\* been answered; the backend failed on both log calls of one, and logging is
\* not configured for the other.
C10_Witness ==
    /\ pc["r1"] = "done" /\ pc["r2"] = "done" /\ SameInput("r1", "r2")
    /\ LogOutcomesOf("r1") = <<"failed", "failed">>
    /\ LogOutcomesOf("r2") = <<"skipped", "skipped">>

\* C11 as stated: the handler does not wait for the logging call, so even when
\* a logging call never completes the request is eventually answered, and a
\* render failure is eventually followed by the call of the static extractor.
C11_Original ==
    /\ <>(pc["r1"] = "done")
    /\ (RenderFailed("r1") ~> CountCalls("r1", "scrapeWithFetch") = 1)

\* C12: when no render-service endpoint is configured, scrapeWithSelenium
\* returns the failure with status 501 without having received any reply; no
\* request goes to the render service and no HEAD probe is sent before the
\* static extractor is called; the handler goes on to the static extractor
\* (it is at the log call before the fallback, in the static extractor, or has
\* answered from the static extractor's result).
C12_NotConfigured ==
    \A r \in Reqs : (~env[r].seleniumServiceUrl /\ seleniumResult[r] # None) =>
        /\ Has(seleniumResult[r], "error") /\ Has(seleniumResult[r], "status")
        /\ seleniumResult[r].status = 501
        /\ seleniumResult[r].data = <<>>
        /\ world[r][1].reply = NoReply
        /\ \A i \in DOMAIN calls[r] :
              /\ calls[r][i].fn = "GET" => calls[r][i].to = "target site"
              /\ calls[r][i].fn = "HEAD" =>
                    \E j \in 1..(i - 1) : calls[r][j].fn = "scrapeWithFetch"
        /\ pc[r] \in {"log", "fetch", "done"}
        /\ (pc[r] = "log" /\ fetchResult[r] = None) => resume[r] = "fallback"
        /\ Returned(r) => CountCalls(r, "scrapeWithFetch") = 1 /\ fetchResult[r] # None

\* C12 happens: without a configured render service a request has been
\* answered with an item the static extractor found and probed.
C12_Witness ==
    \E r \in Reqs : /\ ~env[r].seleniumServiceUrl /\ Returned(r) /\ StaticSucceeded(r)
                    /\ Len(fetchResult[r].data) >= 1 /\ CountCalls(r, "HEAD") >= 1

\* The successful extraction results of request r, each with the base URL its
\* candidates were resolved against and the candidate strings of its input:
\* for the render service the elements of the two arrays; for the static path
\* the src (or data-src) of every img, the first srcset entry of every source
\* of a picture, and the src of every video or else of its source children.
Candidate(v) == v.kind \in {"abs", "rel", "bad"}
SrcsetFirst(source) == IF Has(source, "srcset") THEN source.srcset.entries[1] ELSE Undefined
StaticCandidates(page) ==
    LET els == Range(page)
        pictures == {el \in els : el.tag = "picture"}
        imgs == {el \in els : el.tag = "img"} \cup UNION {Range(p.imgs) : p \in pictures}
        videos == {el \in els : el.tag = "video"}
    IN  {v \in {OrElse(Attr(el, "src"), Attr(el, "dataSrc")) : el \in imgs}
               \cup UNION {{SrcsetFirst(so) : so \in Range(p.sources)} : p \in pictures}
               \cup {Attr(el, "src") : el \in videos}
               \cup UNION {{Attr(so, "src") : so \in Range(el.sources)} :
                              el \in {v \in videos : Falsy(Attr(v, "src"))}}
           : Candidate(v)}
Extractions(r) ==
    (IF RenderSucceeded(r)
     THEN {[path |-> "render", data |-> seleniumResult[r].data, base |-> NoBase,
            candidates |-> {v \in Range(world[r][1].reply.body.images.elems)
                                   \cup Range(world[r][1].reply.body.videos.elems) : Candidate(v)}]}
     ELSE {})
    \cup
    (IF StaticSucceeded(r)
     THEN {[path |-> "static", data |-> fetchResult[r].data,
            base |-> Origin(validatedUrl[r]),
            candidates |-> StaticCandidates(world[r][2].reply.html)]}
     ELSE {})

\* The number of items of data whose src is the absolute URL u.
ItemsWithSrc(data, u) == Cardinality({i \in DOMAIN data : data[i].src = u})

\* C13: in the item list of a successful extraction no two items have the
\* same src, and every candidate string of the input that resolves has exactly
\* one item with its absolute URL, however often and in whatever forms, tags
\* or arrays that URL occurs.
C13_UniqueSrc ==
    \A r \in Reqs : \A x \in Extractions(r) :
        /\ \A i \in DOMAIN x.data : \A j \in DOMAIN x.data :
              x.data[i].src = x.data[j].src => i = j
        /\ \A c \in x.candidates :
              Resolves(c, x.base) => ItemsWithSrc(x.data, Resolve(c, x.base)) = 1

\* C13 happens: the static extractor returned the items of a page on which
\* one URL occurs four times (relative and absolute, in two img, a picture
\* source and a video) and another once.
C13_Witness ==
    \E r \in Reqs : \E x \in Extractions(r) :
        /\ x.path = "static"
        /\ {ImgB, ImgBAbs, ImgA} \subseteq x.candidates
        /\ Cardinality({el \in Range(world[r][2].reply.html) : el.tag \in {"picture", "video"}}) = 2
        /\ Len(x.data) = 2

\* The render service replied 2xx with a JSON object holding the two arrays;
\* the target site replied 2xx with an HTML page.
RenderReplyUsable(r) ==
    /\ Len(world[r]) >= 1 /\ world[r][1].reply.kind = "response"
    /\ Ok(world[r][1].reply.status) /\ world[r][1].reply.body.json
    /\ ~world[r][1].reply.body.isNull
    /\ IsArray(world[r][1].reply.body, "images") /\ IsArray(world[r][1].reply.body, "videos")
StaticReplyUsable(r) ==
    /\ Len(world[r]) >= 2 /\ world[r][2].reply.kind = "response"
    /\ Ok(world[r][2].reply.status) /\ IsHtml(world[r][2].reply)

\* An absolute URL as the URL parser prints it.
AbsoluteUrl(u) == DOMAIN u = {"scheme", "host", "path"} /\ u.scheme \in {"http://", "https://"}

\* C14: an extractor whose collaborator gave a usable reply reports success
\* whatever candidates the reply holds; every item of the result has the
\* absolute URL of a candidate that resolves as its src and carries no error,
\* so a candidate that does not resolve has no item; and every candidate that
\* resolves has its item.
C14_InvalidCandidateDropped ==
    \A r \in Reqs :
        /\ RenderReplyUsable(r) => RenderSucceeded(r)
        /\ StaticReplyUsable(r) => StaticSucceeded(r)
        /\ \A x \in Extractions(r) :
              /\ \A i \in DOMAIN x.data :
                    /\ AbsoluteUrl(x.data[i].src)
                    /\ ~Has(x.data[i], "error")
                    /\ \E c \in x.candidates :
                          Resolves(c, x.base) /\ x.data[i].src = Resolve(c, x.base)
              /\ \A c \in x.candidates :
                    Resolves(c, x.base) => ItemsWithSrc(x.data, Resolve(c, x.base)) >= 1

\* C14 happens: a page with a candidate that does not resolve and others that
\* do has been extracted, and so has a render response with a relative
\* string (no base to resolve it against) among absolute ones.
C14_Witness ==
    \E r \in Reqs : \E x \in Extractions(r) :
        /\ \E c \in x.candidates : ~Resolves(c, x.base)
        /\ \E c \in x.candidates : Resolves(c, x.base)
        /\ x.path = "static"
        /\ Len(x.data) >= 2

\* A second case of C14: the render path drops a relative string.
C14_WitnessRender ==
    \E r \in Reqs : \E x \in Extractions(r) :
        /\ x.path = "render" /\ ImgB \in x.candidates /\ Len(x.data) = 3

\* The HEAD requests request r made after it called the static extractor.
StaticHeadCalls(r) ==
    {i \in DOMAIN calls[r] : /\ calls[r][i].fn = "HEAD"
                             /\ \E j \in 1..(i - 1) : calls[r][j].fn = "scrapeWithFetch"}

\* C15 as stated: in the static path a HEAD probe is sent only for image
\* items, none for a video item, and every video item of the result is
\* without fileSize.
C15_Original ==
    \A r \in Reqs : StaticSucceeded(r) =>
        /\ \A i \in StaticHeadCalls(r) :
              \E k \in DOMAIN fetchResult[r].data :
                  /\ fetchResult[r].data[k].src = calls[r][i].url
                  /\ fetchResult[r].data[k].type = "image"
        /\ \A k \in DOMAIN fetchResult[r].data :
              fetchResult[r].data[k].type = "video" => ~Has(fetchResult[r].data[k], "fileSize")

\* The HEAD request ended in a 2xx response whose Content-Length is a number.
ProbeSucceeds(head) ==
    /\ head.kind = "response" /\ head.status \in 200..299
    /\ Has(head, "contentLength") /\ head.contentLength = "1024"

\* The item without its fileSize.
WithoutSize(item) == [f \in DOMAIN item \ {"fileSize"} |-> item[f]]

\* The successful extractions of request r, each with the replies its HEAD
\* probes got and the items the same reply gives when every probe times out.
ProbedExtractions(r) ==
    (IF RenderSucceeded(r)
     THEN {[path |-> "render", data |-> seleniumResult[r].data, heads |-> world[r][1].heads,
            allTimedOut |-> scrapeWithSelenium(TRUE, world[r][1].reply,
                                [u \in DOMAIN world[r][1].heads |-> [kind |-> "timeout"]],
                                [i \in 1..Cardinality(DOMAIN world[r][1].heads) |-> i]).data]}
     ELSE {})
    \cup
    (IF StaticSucceeded(r)
     THEN {[path |-> "static", data |-> fetchResult[r].data, heads |-> world[r][2].heads,
            allTimedOut |-> scrapeWithFetch(validatedUrl[r], world[r][2].reply,
                                [u \in DOMAIN world[r][2].heads |-> [kind |-> "timeout"]],
                                [i \in 1..Cardinality(DOMAIN world[r][2].heads) |-> i]).data]}
     ELSE {})

\* C16: in a successful extraction an item has fileSize exactly when a probe
\* was sent for it and ended in a 2xx response with a numeric Content-Length
\* (then fileSize is that number); after any other end of the probe the item
\* is in the result without fileSize; the items, fileSize apart, and their
\* order are those the same reply gives when every probe times out; and the
\* extractor reports success for a usable reply whatever the probes did.
C16_ProbeDegradation ==
    \A r \in Reqs :
        /\ (RenderReplyUsable(r) /\ seleniumResult[r] # None) => ~Has(seleniumResult[r], "error")
        /\ (StaticReplyUsable(r) /\ fetchResult[r] # None) => ~Has(fetchResult[r], "error")
        /\ \A x \in ProbedExtractions(r) :
              /\ \A i \in DOMAIN x.data :
                    IF x.data[i].src \in DOMAIN x.heads /\ ProbeSucceeds(x.heads[x.data[i].src])
                    THEN Has(x.data[i], "fileSize") /\ x.data[i].fileSize = 1024
                    ELSE ~Has(x.data[i], "fileSize")
              /\ [i \in DOMAIN x.data |-> WithoutSize(x.data[i])] = x.allTimedOut

\* C16 happens: an extraction returned two probed items, one whose probe gave
\* a size and one whose probe gave a Content-Length that is no number.
C16_Witness ==
    \E r \in Reqs : \E x \in ProbedExtractions(r) :
        \E i \in DOMAIN x.data : \E j \in DOMAIN x.data :
            /\ i # j
            /\ Has(x.data[i], "fileSize")
            /\ x.data[j].src \in DOMAIN x.heads
            /\ x.heads[x.data[j].src] = [kind |-> "response", status |-> 200, contentLength |-> "abc"]

\* The static extractor of request r got an HTML page from which no candidate
\* resolves (no media tag at all, or only tags whose URL is missing or invalid).
NothingResolves(r) ==
    /\ StaticReplyUsable(r)
    /\ \A c \in StaticCandidates(world[r][2].reply.html) : ~Resolves(c, Origin(validatedUrl[r]))

\* C17: for such a page the static extractor returns an empty item list and
\* no error, no HEAD probe is sent, and the handler, which got here after a
\* render failure, answers with status 200 and the empty list.
C17_ZeroResultSuccess ==
    \A r \in Reqs : (NothingResolves(r) /\ fetchResult[r] # None) =>
        /\ fetchResult[r] = [data |-> <<>>]
        /\ RenderFailed(r)
        /\ StaticHeadCalls(r) = {}
        /\ pc[r] \in {"log", "done"}
        /\ pc[r] = "log" =>
              /\ resume[r] = "return"
              /\ toReturn[r] = [status |-> 200, body |-> [data |-> <<>>]]
              /\ logArg[r].status = "Success" /\ logArg[r].itemsFound = 0
        /\ pc[r] = "done" => response[r] = <<[status |-> 200, body |-> [data |-> <<>>]]>>

\* C17 happens: a page whose only candidate does not resolve has been
\* answered.
C17_Witness ==
    \E r \in Reqs : /\ Returned(r) /\ NothingResolves(r)
                    /\ StaticCandidates(world[r][2].reply.html) = {CandBad}

\* A second case of C17: a page without any media tag has been answered.
C17_WitnessNoTags ==
    \E r \in Reqs : Returned(r) /\ NothingResolves(r) /\ world[r][2].reply.html = <<>>

\* The candidate strings of a page in document order, each with the scan
\* that finds it: 1 for an img, 2 for a source of a picture, 3 for a video.
\* Inside a picture the sources precede the img.
ImgCandidate(el) == [scan |-> 1, c |-> OrElse(Attr(el, "src"), Attr(el, "dataSrc"))]
RECURSIVE DomCandidates(_)
DomCandidates(page) ==
    IF page = <<>> THEN <<>>
    ELSE LET el == Head(page)
         IN  (CASE el.tag = "img" -> <<ImgCandidate(el)>>
                [] el.tag = "picture" ->
                     [i \in DOMAIN el.sources |-> [scan |-> 2, c |-> SrcsetFirst(el.sources[i])]]
                     \o [i \in DOMAIN el.imgs |-> ImgCandidate(el.imgs[i])]
                [] el.tag = "video" ->
                     IF ~Falsy(Attr(el, "src")) THEN <<[scan |-> 3, c |-> Attr(el, "src")]>>
                     ELSE [i \in DOMAIN el.sources |->
                              [scan |-> 3, c |-> Attr(el.sources[i], "src")]])
             \o DomCandidates(Tail(page))

\* The absolute URLs of the candidates of cands that resolve, in the order of
\* cands, each URL at its first occurrence only.
RECURSIVE FirstOccurrences(_, _)
FirstOccurrences(urls, seen) ==
    IF urls = <<>> THEN <<>>
    ELSE IF Head(urls) \in seen THEN FirstOccurrences(Tail(urls), seen)
    ELSE <<Head(urls)>> \o FirstOccurrences(Tail(urls), seen \cup {Head(urls)})
Discovered(cands, base) ==
    LET ok == SelectSeq(cands, LAMBDA c : Candidate(c) /\ Resolves(c, base))
    IN  FirstOccurrences([i \in DOMAIN ok |-> Resolve(ok[i], base)], {})

\* The order of the src values of the page in document order, and in the
\* order of the three scans (document order within each scan).
DomOrder(page, base) ==
    Discovered([i \in DOMAIN DomCandidates(page) |-> DomCandidates(page)[i].c], base)
ScanOrder(page, base) ==
    LET byScan(n) == SelectSeq(DomCandidates(page), LAMBDA x : x.scan = n)
        all == byScan(1) \o byScan(2) \o byScan(3)
    IN  Discovered([i \in DOMAIN all |-> all[i].c], base)

\* The order of the src values of a render response: the images array, then
\* the videos array.
ArrayOrder(result) == Discovered(result.images.elems \o result.videos.elems, NoBase)

Srcs(data) == [i \in DOMAIN data |-> data[i].src]

\* C18 as stated: the items of the static path are in document order, those
\* of the render path in the order of the response arrays.
C18_Original ==
    \A r \in Reqs :
        /\ RenderSucceeded(r) => Srcs(seleniumResult[r].data) = ArrayOrder(world[r][1].reply.body)
        /\ StaticSucceeded(r) =>
              Srcs(fetchResult[r].data) = DomOrder(world[r][2].reply.html, Origin(validatedUrl[r]))

\* C18 amended: the items are in the order in which the extractor discovers
\* the candidates, in whatever order the probes complete: in the render path
\* the images array in its order, then the videos array in its order; in the
\* static path the candidates of every img in document order, then those of
\* every source of a picture in document order, then those of every video in
\* document order (so an img comes before a video that precedes it in the
\* document).
C18_DiscoveryOrder ==
    \A r \in Reqs :
        /\ RenderSucceeded(r) => Srcs(seleniumResult[r].data) = ArrayOrder(world[r][1].reply.body)
        /\ StaticSucceeded(r) =>
              Srcs(fetchResult[r].data) = ScanOrder(world[r][2].reply.html, Origin(validatedUrl[r]))

\* C18 happens: the static extractor returned two probed items of a page on
\* which the video comes before the img, the img first.
C18_Witness ==
    \E r \in Reqs :
        /\ StaticSucceeded(r) /\ Len(fetchResult[r].data) = 2
        /\ world[r][2].reply.html[1].tag = "video"
        /\ fetchResult[r].data[1].type = "image" /\ fetchResult[r].data[2].type = "video"
        /\ Cardinality(StaticHeadCalls(r)) = 2

\* A second case of C18: a render response with two probed images and a video.
C18_WitnessRender ==
    \E r \in Reqs : /\ RenderSucceeded(r) /\ Len(seleniumResult[r].data) = 3
                    /\ CountCalls(r, "HEAD") = 2

\* The render call of request r timed out.
RenderTimedOut(r) ==
    /\ RenderFailed(r) /\ world[r][1].reply.kind = "timeout"
    /\ seleniumResult[r].error = <<"Selenium Service request timed out.">>

\* In the successful extractions of request r, an item whose probe timed out
\* is in the result without fileSize.
ProbeTimeoutGivesAbsent(r) ==
    \A x \in ProbedExtractions(r) :
        \A u \in DOMAIN x.heads : x.heads[u].kind = "timeout" =>
            \E i \in DOMAIN x.data : x.data[i].src = u /\ ~Has(x.data[i], "fileSize")

Step2Recorded(r) ==
    /\ RenderFailed(r) /\ CountCalls(r, "scrapeWithFetch") = 1
    /\ ~(pc[r] = "done" /\ StaticFailed(r))

\* C20: the status recorded for step 2 is 502 when the render failure has a
\* status in 500..599 or no status (timeout, network error), and the render
\* failure's own status when that is in 400..499.
C20_Step2StatusMapping ==
    \A r \in Reqs : Step2Recorded(r) =>
        /\ ~Has(seleniumResult[r], "status") => finalStatus[r] = 502
        /\ (Has(seleniumResult[r], "status") /\ seleniumResult[r].status \in 500..599) =>
              finalStatus[r] = 502
        /\ (Has(seleniumResult[r], "status") /\ seleniumResult[r].status \in 400..499) =>
              finalStatus[r] = seleniumResult[r].status

\* C20 happens: step 2 recorded the 404 of the render service.
C20_Witness ==
    \E r \in Reqs : /\ Step2Recorded(r) /\ pc[r] = "fetch"
                    /\ Has(seleniumResult[r], "status") /\ seleniumResult[r].status = 404
                    /\ finalStatus[r] = 404

\* Other cases of C20: step 2 recorded 502 for a 503 of the render service,
\* and for a timeout of the render call.
C20_Witness503 ==
    \E r \in Reqs : /\ Step2Recorded(r) /\ Has(seleniumResult[r], "status")
                    /\ seleniumResult[r].status = 503 /\ finalStatus[r] = 502
C20_WitnessTimeout ==
    \E r \in Reqs : Step2Recorded(r) /\ RenderTimedOut(r) /\ finalStatus[r] = 502

\* The render service replied 2xx with a JSON object whose images or videos
\* field is missing or no array.
RenderReplyWrongShape(r) ==
    /\ Len(world[r]) >= 1 /\ world[r][1].reply.kind = "response"
    /\ Ok(world[r][1].reply.status) /\ world[r][1].reply.body.json
    /\ ~world[r][1].reply.body.isNull
    /\ \E f \in {"images", "videos"} :
          ~Has(world[r][1].reply.body, f) \/ ~world[r][1].reply.body[f].array

\* C21: for such a reply scrapeWithSelenium returns an error with status 500
\* and an empty item list, whatever the other field holds; no HEAD probe is
\* sent before the static extractor is called; and the handler calls the
\* static extractor before it answers.
C21_WrongShape ==
    \A r \in Reqs : (RenderReplyWrongShape(r) /\ seleniumResult[r] # None) =>
        /\ Has(seleniumResult[r], "error") /\ Has(seleniumResult[r], "status")
        /\ seleniumResult[r].status = 500
        /\ seleniumResult[r].data = <<>>
        /\ world[r][1].heads = <<>>
        /\ \A i \in DOMAIN calls[r] : calls[r][i].fn = "HEAD" => i \in StaticHeadCalls(r)
        /\ pc[r] \in {"log", "fetch", "done"}
        /\ (pc[r] = "log" /\ fetchResult[r] = None) => resume[r] = "fallback"
        /\ Returned(r) => CountCalls(r, "scrapeWithFetch") = 1 /\ fetchResult[r] # None

\* C21 happens: a reply whose images is no array and whose videos holds a
\* valid URL has been answered from the static path.
C21_Witness ==
    \E r \in Reqs : /\ RenderReplyWrongShape(r) /\ Returned(r) /\ StaticSucceeded(r)
                    /\ Has(world[r][1].reply.body, "videos")
                    /\ world[r][1].reply.body.videos = Arr(<<VidV>>)

\* A second case of C21: the videos field is missing, images holds a valid URL.
C21_WitnessMissing ==
    \E r \in Reqs : /\ RenderReplyWrongShape(r) /\ Returned(r)
                    /\ ~Has(world[r][1].reply.body, "videos")

\* A result object {data, error?, status?} whose item list is empty when it
\* reports an error.
ResultValue(result) ==
    /\ Has(result, "data") /\ DOMAIN result \subseteq {"data", "error", "status"}
    /\ Has(result, "error") => result.data = <<>>

\* The message of a log record or response is that of the outer catch.
IsUnhandled(message) == message # <<>> /\ message[1] \in
    {"Unhandled API Error: ", "An unexpected server error occurred."}

\* C22: every call of an extractor that got its reply (non-2xx status,
\* timeout, connection error, unparsable body, or any other) has returned a
\* result object; a result with an error has an empty item list; the fileSize
\* of an item is a number or absent; and once an extractor has been called the
\* outer catch of the handler is never entered.
C22_FailuresAreValues ==
    \A r \in Reqs :
        /\ Len(world[r]) >= 1 => seleniumResult[r] # None /\ ResultValue(seleniumResult[r])
        /\ Len(world[r]) >= 2 => fetchResult[r] # None /\ ResultValue(fetchResult[r])
        /\ \A x \in ProbedExtractions(r) : \A i \in DOMAIN x.data :
              Has(x.data[i], "fileSize") => x.data[i].fileSize \in Nat
        /\ calls[r] # <<>> =>
              /\ (pc[r] = "log" /\ Has(logArg[r], "errorMessage")) =>
                    ~IsUnhandled(logArg[r].errorMessage)
              /\ (Returned(r) /\ Has(response[r][1].body, "error")) =>
                    ~IsUnhandled(response[r][1].body.error)

\* C22 happens: the render service sent a body that is no JSON, the request
\* to the target site then failed to connect, and the request has been
\* answered.
C22_Witness ==
    \E r \in Reqs : /\ Returned(r) /\ RenderFailed(r) /\ StaticFailed(r)
                    /\ world[r][1].reply.kind = "response" /\ Ok(world[r][1].reply.status)
                    /\ ~world[r][1].reply.body.json
                    /\ world[r][2].reply.kind = "neterror"

\* The candidates of a page in scan order (every img, then every source of a
\* picture, then every video), each with the type, alt and poster its tag
\* gives it; those of a render response (the images array, then the videos
\* array), which carry neither alt nor poster.
RECURSIVE VideoEntries(_)
VideoEntries(videos) ==
    IF videos = <<>> THEN <<>>
    ELSE LET el == Head(videos)
             entry(c) == [type |-> "video", c |-> c, alt |-> Undefined, poster |-> Attr(el, "poster")]
         IN  (IF ~Falsy(Attr(el, "src")) THEN <<entry(Attr(el, "src"))>>
              ELSE [i \in DOMAIN el.sources |-> entry(Attr(el.sources[i], "src"))])
             \o VideoEntries(Tail(videos))
StaticEntries(page) ==
    [i \in DOMAIN SelectImg(page) |->
        [type |-> "image", c |-> OrElse(Attr(SelectImg(page)[i], "src"),
                                        Attr(SelectImg(page)[i], "dataSrc")),
         alt |-> Attr(SelectImg(page)[i], "alt"), poster |-> Undefined]]
    \o [i \in DOMAIN SelectPictureSource(page) |->
        [type |-> "image", c |-> SrcsetFirst(SelectPictureSource(page)[i].source),
         alt |-> ParentImgAlt(page, SelectPictureSource(page)[i].picture), poster |-> Undefined]]
    \o VideoEntries(SelectVideo(page))
RenderEntries(result) ==
    [i \in DOMAIN result.images.elems |->
        [type |-> "image", c |-> result.images.elems[i], alt |-> Undefined, poster |-> Undefined]]
    \o [i \in DOMAIN result.videos.elems |->
        [type |-> "video", c |-> result.videos.elems[i], alt |-> Undefined, poster |-> Undefined]]

\* The positions of entries whose candidate resolves to the absolute URL u.
Occurrences(entries, base, u) ==
    {k \in DOMAIN entries : /\ Candidate(entries[k].c) /\ Resolves(entries[k].c, base)
                            /\ Resolve(entries[k].c, base) = u}

\* The item has the type, alt and poster of the entry.
TakenFrom(item, e, base) ==
    /\ item.type = e.type
    /\ Has(item, "alt") <=> ~Falsy(e.alt)
    /\ Has(item, "alt") => item.alt = e.alt.text
    /\ Has(item, "poster") <=> (~Falsy(e.poster) /\ Resolves(e.poster, base))
    /\ Has(item, "poster") => item.poster = Resolve(e.poster, base)

FirstSeenWins(data, entries, base) ==
    \A i \in DOMAIN data :
        LET occ == Occurrences(entries, base, data[i].src)
        IN  /\ occ # {}
            /\ \A k \in occ : (\A j \in occ : k <= j) => TakenFrom(data[i], entries[k], base)

\* C23: in a successful extraction the type, alt and poster of every item are
\* those of the first candidate, in scan order, that resolves to the item's
\* src; candidates that come later with the same absolute URL change nothing.
C23_FirstSeenWins ==
    \A r \in Reqs :
        /\ RenderSucceeded(r) =>
              FirstSeenWins(seleniumResult[r].data, RenderEntries(world[r][1].reply.body), NoBase)
        /\ StaticSucceeded(r) =>
              FirstSeenWins(fetchResult[r].data, StaticEntries(world[r][2].reply.html),
                            Origin(validatedUrl[r]))

\* C23 happens: a page on which one URL is the src of an img without alt, of
\* an img with alt and of a video with a poster gave one image item without
\* alt and without poster.
C23_Witness ==
    \E r \in Reqs :
        /\ StaticSucceeded(r) /\ Len(fetchResult[r].data) = 1
        /\ Cardinality(Occurrences(StaticEntries(world[r][2].reply.html), Origin(validatedUrl[r]),
                                   fetchResult[r].data[1].src)) = 3
        /\ fetchResult[r].data[1].type = "image"
        /\ ~Has(fetchResult[r].data[1], "alt") /\ ~Has(fetchResult[r].data[1], "poster")

\* A second case of C23: a URL in both arrays of a render response is an image.
C23_WitnessRender ==
    \E r \in Reqs : RenderSucceeded(r) /\ \E i \in DOMAIN seleniumResult[r].data :
        /\ Returned(r)
        /\ Cardinality(Occurrences(RenderEntries(world[r][1].reply.body), NoBase,
                                   seleniumResult[r].data[i].src)) = 3
        /\ seleniumResult[r].data[i].type = "image"

\* ------------------------------------------------------------------------
\* Fan-out of the size probes
\* ------------------------------------------------------------------------

\* The probes of the extractor run that request r made last.
ProbesOf(r) ==
    IF Len(world[r]) = 1 THEN SeleniumProbes(env[r].seleniumServiceUrl, world[r][1].reply)
    ELSE IF Len(world[r]) = 2 THEN FetchProbes(world[r][2].reply, validatedUrl[r])
    ELSE <<>>

\* The extractor run that request r made last has returned its result.
ExtractorReturned(r) ==
    \/ Len(world[r]) = 1 /\ seleniumResult[r] # None
    \/ Len(world[r]) = 2 /\ fetchResult[r] # None

\* C24: within one extraction every probe is launched before the end of any
\* of them is awaited (while the extractor waits for its probes, and before
\* each end of a probe, all the probes of the run have been launched), and
\* the extractor has returned no result while a probe is outstanding.
C24_FanOut ==
    \A r \in Reqs :
        /\ pc[r] \in {"selenium probes", "fetch probes"} => Launched(r) = Range(ProbesOf(r))
        /\ \A i \in DOMAIN calls[r] :
              calls[r][i].fn = "settled" =>
                 \A u \in Range(ProbesOf(r)) :
                    \E j \in 1..(i - 1) : calls[r][j].fn = "HEAD" /\ calls[r][j].url = u
        /\ ExtractorReturned(r) => /\ Launched(r) = Range(ProbesOf(r))
                                   /\ Ended(r) = Launched(r)

\* An extraction with two probes has returned, the second probe having ended
\* first.
C24_Witness ==
    \E r \in Reqs :
        /\ ExtractorReturned(r)
        /\ Len(ProbesOf(r)) >= 2
        /\ EndOrder(r, ProbesOf(r))[1] = 2

\* The extractor waits with one probe ended and another outstanding.
C24_WitnessOutstanding ==
    \E r \in Reqs :
        /\ pc[r] \in {"selenium probes", "fetch probes"}
        /\ Ended(r) # {}
        /\ Launched(r) \ Ended(r) # {}

\* ------------------------------------------------------------------------
\* Status and content type of the page
\* ------------------------------------------------------------------------

\* The answer of the target site to request r, once scrapeWithFetch returned.
StaticReply(r) == world[r][2].reply

\* scrapeWithFetch returned to request r a failure of this status, with no
\* item, and no probe was sent.
StaticFailsUnparsed(r, status) ==
    /\ Has(fetchResult[r], "error")
    /\ Has(fetchResult[r], "status") /\ fetchResult[r].status = status
    /\ fetchResult[r].data = <<>>
    /\ CountCalls(r, "HEAD") = 0

\* C25: a response of the target site outside 200-299 fails with its own
\* status, whatever its content type; one inside 200-299 whose content type
\* is absent or not HTML fails with 415; in both cases there is no item and no
\* probe.
C25_StatusBeforeContentType ==
    \A r \in Reqs :
        (fetchResult[r] # None /\ StaticReply(r).kind = "response") =>
            /\ ~Ok(StaticReply(r).status) => StaticFailsUnparsed(r, StaticReply(r).status)
            /\ (Ok(StaticReply(r).status) /\ ~IsHtml(StaticReply(r))) => StaticFailsUnparsed(r, 415)

\* A 404 whose content type is not HTML failed with 404.
C25_Witness ==
    \E r \in Reqs :
        /\ fetchResult[r] # None /\ StaticReply(r).kind = "response"
        /\ StaticReply(r).status = 404 /\ ~IsHtml(StaticReply(r))
        /\ fetchResult[r].status = 404

\* A 200 without a content type failed with 415.
C25_Witness415 ==
    \E r \in Reqs :
        /\ fetchResult[r] # None /\ StaticReply(r).kind = "response"
        /\ StaticReply(r).status = 200 /\ ~Has(StaticReply(r), "contentType")
        /\ fetchResult[r].status = 415

\* ------------------------------------------------------------------------
\* Candidates of a <video> element
\* ------------------------------------------------------------------------

\* The entries at positions 1..(k - 1) resolve to other URLs than entry k.
FirstOfItsUrl(entries, k, base) ==
    \A j \in 1..(k - 1) :
        ~(Candidate(entries[j].c) /\ Resolves(entries[j].c, base)
          /\ Resolve(entries[j].c, base) = Resolve(entries[k].c, base))

\* The video candidates of the page, as the statement gives them: for a
\* <video> with a src that src alone, otherwise the src of each nested
\* <source>, each with the poster of the <video>.
VideoCandidates(page) ==
    LET entries == VideoEntries(SelectVideo(page))
    IN  SelectSeq(entries, LAMBDA e : Candidate(e.c))

\* C26: in a successful static extraction every video item comes from a video
\* candidate (the src of a <video> that has one, the src of a nested <source>
\* otherwise) and occurs once; every video candidate that resolves is in the
\* result, whether or not its poster resolves; and an item made from a video
\* candidate has the poster of the <video> as an absolute URL when that
\* resolves, and no poster otherwise.
C26_VideoCandidates ==
    \A r \in Reqs :
        StaticSucceeded(r) =>
            LET data == fetchResult[r].data
                page == world[r][2].reply.html
                base == Origin(validatedUrl[r])
                videos == VideoCandidates(page)
                before == Len(StaticEntries(page)) - Len(VideoEntries(SelectVideo(page)))
                others == SubSeq(StaticEntries(page), 1, before)
            IN  /\ \A i \in DOMAIN data :
                      data[i].type = "video" =>
                          /\ \E k \in DOMAIN videos :
                                Resolves(videos[k].c, base) /\ Resolve(videos[k].c, base) = data[i].src
                          /\ \A j \in DOMAIN data : data[j].src = data[i].src => j = i
                /\ \A k \in DOMAIN videos :
                      Resolves(videos[k].c, base) =>
                          \E i \in DOMAIN data :
                              /\ data[i].src = Resolve(videos[k].c, base)
                              /\ (FirstOfItsUrl(others \o videos, before + k, base)) =>
                                    /\ data[i].type = "video"
                                    /\ Has(data[i], "poster") <=>
                                          (~Falsy(videos[k].poster) /\ Resolves(videos[k].poster, base))
                                    /\ Has(data[i], "poster") =>
                                          data[i].poster = Resolve(videos[k].poster, base)

\* A <video> with a src, a poster that does not resolve and a nested <source>
\* gave one video item, of the src of the <video>, without poster.
C26_Witness ==
    \E r \in Reqs :
        /\ StaticSucceeded(r)
        /\ \E k \in DOMAIN world[r][2].reply.html :
              LET el == world[r][2].reply.html[k]
              IN  /\ el.tag = "video" /\ ~Falsy(Attr(el, "src")) /\ el.sources # <<>>
                  /\ ~Falsy(Attr(el, "poster")) /\ ~Resolves(Attr(el, "poster"), Origin(validatedUrl[r]))
        /\ Len(fetchResult[r].data) = 1
        /\ fetchResult[r].data[1].type = "video" /\ ~Has(fetchResult[r].data[1], "poster")

\* A <video> without src, with a poster and two nested <source> children gave
\* two video items with that poster as an absolute URL.
C26_WitnessNested ==
    \E r \in Reqs :
        /\ StaticSucceeded(r)
        /\ Len(world[r][2].reply.html) = 1
        /\ world[r][2].reply.html[1].tag = "video"
        /\ Len(world[r][2].reply.html[1].sources) = 2
        /\ world[r][2].reply.html[1].poster.kind = "rel"
        /\ Len(fetchResult[r].data) = 2
        /\ \A i \in 1..2 :
              /\ fetchResult[r].data[i].type = "video"
              /\ Has(fetchResult[r].data[i], "poster")
              /\ fetchResult[r].data[i].poster =
                    Resolve(world[r][2].reply.html[1].poster, Origin(validatedUrl[r]))

\* ------------------------------------------------------------------------
\* Filename and extension of an item
\* ------------------------------------------------------------------------

\* The last segment of a path: what follows its last '/'.
LastSegment(path) ==
    LET slashes == {i \in DOMAIN path : path[i] = "/"}
        last == IF slashes = {} THEN 0 ELSE CHOOSE i \in slashes : \A j \in slashes : j <= i
    IN  SubSeq(path, last + 1, Len(path))

\* The items of the extractions that succeeded for request r.
ExtractedItems(r) ==
    (IF RenderSucceeded(r) THEN Range(seleniumResult[r].data) ELSE {})
    \cup (IF StaticSucceeded(r) THEN Range(fetchResult[r].data) ELSE {})

\* C27 as stated: the filename of an item is the last segment of the path of
\* its URL and is absent when the path ends in '/'; its extension is the
\* lowercase text after the last '.' of that segment and is absent when the
\* segment has no '.'; an extension that is present is non-empty and holds no
\* '?' or '#'.
C27_Original ==
    \A r \in Reqs :
        \A item \in ExtractedItems(r) :
            LET seg == LastSegment(item.src.path)
                dots == {i \in DOMAIN seg : seg[i] = "."}
            IN  /\ Has(item, "filename") <=> seg # <<>>
                /\ Has(item, "filename") => item.filename = seg
                /\ Has(item, "extension") <=> dots # {}
                /\ Has(item, "extension") =>
                      /\ item.extension # <<>>
                      /\ \A i \in DOMAIN item.extension : item.extension[i] \notin {"?", "#", "J", "P", "G"}
                      /\ \E d \in dots :
                            /\ \A e \in dots : e <= d
                            /\ item.extension = ToLowerCase(SubSeq(seg, d + 1, Len(seg)))

\* ------------------------------------------------------------------------
\* Two requests in flight
\* ------------------------------------------------------------------------

\* The response of one invocation of the handler that runs from its first
\* statement to its return with nothing in between, under the configuration e,
\* on the body b and the collaborator replies w.
RunAlone(e, b, w) ==
    IF ~b.json THEN InvalidJsonResponse
    ELSE IF b.isNull
    THEN JsonResponse(500, [error |-> <<"An unexpected server error occurred.">>,
                            details |-> NullBodyMessage])
    ELSE IF UrlMissing(b) THEN UrlRequiredResponse
    ELSE IF ~URLParses(PrependScheme(RawUrl(b))) THEN InvalidUrlResponse
    ELSE LET url == URLParse(PrependScheme(RawUrl(b)))
             n1 == Len(SeleniumProbes(e.seleniumServiceUrl, w[1].reply))
             sel == scrapeWithSelenium(e.seleniumServiceUrl, w[1].reply, w[1].heads,
                                       [i \in 1..n1 |-> i])
         IN  IF NoError(sel) THEN SuccessResponse(sel.data)
             ELSE LET n2 == Len(FetchProbes(w[2].reply, url))
                      fe == scrapeWithFetch(url, w[2].reply, w[2].heads, [i \in 1..n2 |-> i])
                  IN  IF NoError(fe) THEN SuccessResponse(fe.data)
                      ELSE JsonResponse(
                               StatusAfterFetch(fe, StatusAfterSelenium(SeleniumStatus(sel))),
                               TotalFailureBody(FetchAlsoFailed(
                                   SeleniumFailed(FailReason(sel, "Unknown Selenium failure")),
                                   FailReason(fe, "Unknown Fetch failure"))))

\* C28: whatever the interleaving of two requests at their awaits, the
\* response of each (items, their order, error, status) is the one the
\* request gives when it runs alone on the same body and the same replies of
\* its collaborators; no item of a result comes from the other request, and
\* none is missing because of it.
C28_Independent ==
    \A r \in Reqs :
        /\ Returned(r) => response[r] = <<RunAlone(env[r], body[r], world[r])>>
        /\ StaticSucceeded(r) =>
              fetchResult[r] = scrapeWithFetch(validatedUrl[r], world[r][2].reply, world[r][2].heads,
                                   [i \in 1..Len(FetchProbes(world[r][2].reply, validatedUrl[r])) |-> i])

\* Both requests are in flight, each at the await that follows its static
\* extraction, and the two results hold an item of the same URL.
C28_Witness ==
    /\ pc["r1"] = "log" /\ pc["r2"] = "log"
    /\ StaticSucceeded("r1") /\ StaticSucceeded("r2")
    /\ world["r1"][2].reply # world["r2"][2].reply
    /\ Range(Srcs(fetchResult["r1"].data)) \cap Range(Srcs(fetchResult["r2"].data)) # {}

\* Both requests have returned after steps of each among the steps of the other.
C28_WitnessReturned ==
    /\ Returned("r1") /\ Returned("r2")
    /\ StaticSucceeded("r1") /\ RenderSucceeded("r2")
    /\ Range(Srcs(fetchResult["r1"].data)) \cap Range(Srcs(seleniumResult["r2"].data)) # {}

\* ------------------------------------------------------------------------
\* Shape of a response
\* ------------------------------------------------------------------------

\* A response with the item list and status 200, and no error.
DataResponse(resp) ==
    /\ Has(resp.body, "data") /\ ~Has(resp.body, "error")
    /\ resp.status = 200

\* A response with an error message and a status of 400 to 599, and no data.
ErrorResponse(resp) ==
    /\ Has(resp.body, "error") /\ ~Has(resp.body, "data")
    /\ resp.status >= 400 /\ resp.status <= 599

\* C29: every response of the handler is either the item list with status
\* 200 and no error, or an error message with a status of 400 to 599 and no
\* data; whatever the statuses of the render service and of the target site,
\* no failure is answered with a status below 400.
C29_ResponseShape ==
    \A r \in Reqs :
        \A i \in DOMAIN response[r] :
            /\ DataResponse(response[r][i]) \/ ErrorResponse(response[r][i])
            /\ ~(DataResponse(response[r][i]) /\ ErrorResponse(response[r][i]))

\* Both collaborators answered with a status below 400 that is a failure (a
\* 302 of the render service, a 304 of the target site) and the response is
\* an error of status 400 or more.
C29_Witness ==
    \E r \in Reqs :
        /\ Returned(r)
        /\ RenderFailed(r) /\ Has(seleniumResult[r], "status") /\ seleniumResult[r].status < 400
        /\ StaticFailed(r) /\ Has(fetchResult[r], "status") /\ fetchResult[r].status < 400
        /\ ErrorResponse(response[r][1])

\* ------------------------------------------------------------------------
\* The page: one extraction at a time
\* ------------------------------------------------------------------------

\* The result set, the error, the extension filters and the filter panel of
\* the page are as on a fresh page.
ResultsCleared ==
    /\ homePage.allMedia = <<>>
    /\ homePage.scrapeError = Null
    /\ homePage.availableExtensions = {} /\ homePage.selectedExtensions = {}
    /\ ~homePage.showFilters

\* The step is a submit that handleScrape ignored while isLoading was true.
SubmitWhileLoading == homePage.isLoading /\ homePage'.last = "ignored"

\* The step changes nothing of the page but the record of the last event.
NothingElseChanges == homePage' = [homePage EXCEPT !.last = homePage'.last]

\* No request is in flight and no handler is running.
Settled == homePage.inFlight = <<>> /\ homePage.at = "idle"

\* C30 as stated: at most one request is in flight; a submit while isLoading
\* is true sends nothing and changes nothing; when the request is about to
\* be sent the result set, the error and the filters, the selection of types
\* among them, are cleared; isLoading is false once the answer is handled.
C30_Original ==
    /\ [](Len(homePage.inFlight) <= 1)
    /\ [][SubmitWhileLoading => NothingElseChanges]_vars
    /\ [](homePage.at = "sending" =>
             ResultsCleared /\ homePage.selectedTypes = [image |-> TRUE, video |-> TRUE])
    /\ [](Settled => ~homePage.isLoading)

\* C30: at most one request is in flight; a submit while isLoading is true
\* sends nothing and changes nothing; when the request is about to be sent
\* the result set, the error, the extensions offered and selected are cleared
\* and the filter panel is hidden, the selection of types being what it was;
\* isLoading is true while a request is in flight and false once the answer
\* is handled, whatever the answer.
C30_OneExtractionAtATime ==
    /\ [](Len(homePage.inFlight) <= 1)
    /\ [][SubmitWhileLoading => NothingElseChanges]_vars
    /\ [](homePage.at = "sending" => ResultsCleared)
    /\ [][homePage'.selectedTypes # homePage.selectedTypes => homePage'.last = "filter"]_vars
    /\ [](homePage.isLoading <=> ~Settled)

\* A submit was ignored while a request was in flight.
C30_Witness ==
    /\ homePage.last = "ignored"
    /\ homePage.isLoading
    /\ Len(homePage.inFlight) = 1

\* A request is about to be sent with the videos deselected by a toggle made
\* on the results of an earlier extraction.
C30_WitnessTypesKept ==
    /\ homePage.at = "sending"
    /\ ~homePage.selectedTypes["video"]

\* The answer was an exception and isLoading is false again.
C30_WitnessThrown ==
    /\ homePage.last = "answer"
    /\ homePage.scrapeError # Null
    /\ ~homePage.isLoading

====
